---- MODULE Spec2Model ----
(***************************************************************************)
(* Webhook ingestion and call-state reconciliation of CRM-AI               *)
(* (src/webhooks/events.py, src/webhooks/handlers.py,                      *)
(* src/database/connection.py, src/database/models.py,                     *)
(* src/database/migrations.py, src/monitoring/metrics.py,                  *)
(* src/monitoring/collectors.py, src/security/auth.py,                     *)
(* src/validation/phone_validator.py, the /webhook route of src/app.py     *)
(* and the sender of src/main.py).                                         *)
(*                                                                         *)
(* The store is the record store behind db_manager: three tables           *)
(* (call_logs, call_events, customers) holding the fields the handlers     *)
(* read and write, with the autoincrement primary key of a row being its   *)
(* position in the table.  A handler runs inside get_db_session: what it   *)
(* did is committed when its block ends normally and discarded when the    *)
(* block raises.                                                           *)
(*                                                                         *)
(* Python None is the string "None" for text fields and the empty set for  *)
(* datetime/number fields (a present value t is the set {t}).              *)
(*                                                                         *)
(* Helpers that events.py calls but that src/ does not define              *)
(* (_log_webhook, _update_webhook_log, _upsert_customer,                   *)
(* metrics_collector.record_call_duration / record_error) either return    *)
(* normally, doing what the specification says of them, or raise.          *)
(***************************************************************************)
EXTENDS Integers, Sequences, FiniteSets, TLC

VARIABLES call_logs, call_events, customers, inbound, clock, received, last,
          webhook_logs, utcnow,
          session, scope, store, entered, lastExit,
          metrics_cache, cache, in_flight, answer,
          sweeps, race, event_queue, route, limiter, migrate

vars == <<call_logs, call_events, customers, inbound, clock, received, last,
          webhook_logs, utcnow, session, scope, store, entered, lastExit,
          metrics_cache, cache, in_flight, answer, sweeps,
          race, event_queue, route, limiter, migrate>>

EventVars == <<call_logs, call_events, customers, inbound, clock, received,
               last>>
SessionVars == <<session, scope, store, entered, lastExit>>
MetricsVars == <<metrics_cache, cache, in_flight, answer>>
AuxVars == <<sweeps, race, event_queue, route, limiter, migrate>>
NotSweeps == <<race, event_queue, route, limiter, migrate>>
NotRace == <<sweeps, event_queue, route, limiter, migrate>>
NotRoute == <<sweeps, race, limiter, migrate>>
NotLimiter == <<sweeps, race, event_queue, route, migrate>>
NotMigrate == <<sweeps, race, event_queue, route, limiter>>

\* ---------------------------------------------------------------- bounds
MaxEvents == 3      \* webhooks received in one behaviour
MaxTime == 1        \* timestamps and the clock range over 0..MaxTime
MaxWebhooks == 2    \* outbound webhooks sent in one behaviour
MaxClock == 6       \* the delivery clock runs to MaxClock * retry_delay
MaxScopes == 3      \* transaction scopes opened in one behaviour
MaxQueries == 3     \* metrics queries started in one behaviour
MaxDays == 1        \* the metrics clock runs over days 0..MaxDays
MaxCalls == 4       \* calls of RateLimiter.is_allowed in one behaviour
MaxSeconds == 3     \* the rate limiter's clock runs over 0..MaxSeconds
MaxRuns == 3        \* invocations of run_migrations in one behaviour

Times == 0..MaxTime

\* ---------------------------------------------------------------- values
None == "None"
Absent == "<absent>"        \* key not in the payload dict
NoTime == {}

Truthy(v) == v \notin {None, "", Absent}
Get(v) == IF v = Absent THEN None ELSE v            \* dict.get(key)
Or(a, b) == IF Truthy(a) THEN a ELSE b              \* Python "a or b"

\* EventType (events.py 15-29)
EventType == {"call.initiated", "call.connected", "call.answered",
              "call.completed", "call.failed", "call.cancelled",
              "call.no_answer", "call.busy", "recording.ready",
              "transcript.ready", "participant.joined", "participant.left",
              "error.occurred"}

\* WebhookEventProcessor.event_handlers (events.py 53-67)
event_handlers ==
    [t \in EventType |->
        CASE t = "call.initiated" -> "_handle_call_initiated"
          [] t = "call.connected" -> "_handle_call_connected"
          [] t = "call.answered" -> "_handle_call_answered"
          [] t = "call.completed" -> "_handle_call_completed"
          [] t = "call.failed" -> "_handle_call_failed"
          [] t = "call.cancelled" -> "_handle_call_cancelled"
          [] t = "call.no_answer" -> "_handle_call_no_answer"
          [] t = "call.busy" -> "_handle_call_busy"
          [] t = "recording.ready" -> "_handle_recording_ready"
          [] t = "transcript.ready" -> "_handle_transcript_ready"
          [] t = "participant.joined" -> "_handle_participant_joined"
          [] t = "participant.left" -> "_handle_participant_left"
          [] t = "error.occurred" -> "_handle_error_occurred"]

\* ------------------------------------------------------- payloads (input)
\* event.data: the keys the handlers read, and the keys type and callId of
\* a Shape B payload; a key that is not there is None
EmptyData == [type |-> None, callId |-> None, customer_phone |-> None, to |-> None, customer_name |-> None,
              customer_email |-> None, customer_query |-> None,
              query |-> None, room_name |-> None, dispatch_id |-> None,
              recording_url |-> None, duration |-> None,
              transcript_url |-> None, error |-> None]

FullData == [type |-> None, callId |-> None,
             customer_phone |-> "(415) 555-2671", to |-> None,
             customer_name |-> "A", customer_email |-> "a@x",
             customer_query |-> "q", query |-> None, room_name |-> "room",
             dispatch_id |-> "d1", recording_url |-> "r1",
             duration |-> "9", transcript_url |-> "t1", error |-> "e1"]

OtherData == [type |-> None, callId |-> None,
              customer_phone |-> None, to |-> "12", customer_name |-> "B",
              customer_email |-> None, customer_query |-> None,
              query |-> "q2", room_name |-> "room", dispatch_id |-> None,
              recording_url |-> "r2", duration |-> None,
              transcript_url |-> "t2", error |-> "e2"]

DataSet == {EmptyData, FullData, OtherData}

\* _parse_webhook_event returning None
NoEvent == [event_type |-> None, call_id |-> None, timestamp |-> 0,
            data |-> EmptyData]

\* a timestamp string as it arrives: its format and the instant it denotes
KnownFormats == {"%Y-%m-%dT%H:%M:%S.%fZ", "%Y-%m-%dT%H:%M:%SZ",
                 "%Y-%m-%d %H:%M:%S"}
TsAbsent == [kind |-> "absent", fmt |-> None, t |-> 0]
TsString(f, t) == [kind |-> "str", fmt |-> f, t |-> t]
TsNumber(t) == [kind |-> "number", fmt |-> None, t |-> t]
TsEmpty == [kind |-> "empty", fmt |-> None, t |-> 0]
\* a value that is neither a string nor true in a condition: 0, false, [], {}
TsFalsy == [kind |-> "falsy", fmt |-> None, t |-> 0]

Tags == EventType \cup {"custom.event"}
Ids == {"c1", "c2"}

\* Shape A: event_type / call_id / timestamp / data
ShapeA(tag, id, ts, d) ==
    [event_type |-> tag, type |-> Absent, call_id |-> id, callId |-> Absent,
     timestamp |-> ts, createdAt |-> TsAbsent, data |-> <<d>>,
     payload |-> <<>>]
\* Shape B: type / callId / createdAt / payload
ShapeB(tag, id, ts, d) ==
    [event_type |-> Absent, type |-> tag, call_id |-> Absent, callId |-> id,
     timestamp |-> TsAbsent, createdAt |-> ts, data |-> <<>>,
     payload |-> <<d>>]

At(t) == TsString("%Y-%m-%dT%H:%M:%SZ", t)

\* the tags whose handler reads the event's timestamp / the event's data
TimedTags == {"call.initiated", "call.completed"}
DataTags == {"call.initiated", "call.failed", "recording.ready",
             "error.occurred"}

\* payloads that normalise
GoodPayloads ==
    {ShapeA(tag, "c1", At(0), EmptyData) : tag \in Tags}
    \cup {ShapeA(tag, "c1", At(t), EmptyData) :
            tag \in TimedTags, t \in Times}
    \cup {ShapeA(tag, "c1", At(0), FullData) :
            tag \in DataTags \cup {"transcript.ready"}}
    \cup {ShapeA("call.initiated", "c1", At(MaxTime), OtherData),
          ShapeA("call.cancelled", "c1", At(0), FullData),
          ShapeA("call.initiated", "c2", At(0), EmptyData),
          ShapeA("call.connected", "c2", At(0), EmptyData),
          ShapeB("call.initiated", "c1", TsAbsent, FullData),
          ShapeB("call.completed", "c1", TsString("isoformat", 0), EmptyData),
          [ShapeB("recording.ready", "c1", TsNumber(0), EmptyData)
             EXCEPT !.payload = <<>>],
          [ShapeB("call.connected", Absent, TsEmpty, EmptyData)
             EXCEPT !.call_id = "c1", !.timestamp = At(0)]}

\* payloads that do not
BadPayloads ==
    {ShapeA("call.connected", Absent, At(0), EmptyData),
     ShapeA("call.initiated", "", At(0), FullData),
     [ShapeA("call.completed", Absent, At(0), EmptyData)
        EXCEPT !.callId = "c1"],
     ShapeB("call.connected", Absent, At(0), EmptyData),
     ShapeB("custom.event", "", TsAbsent, EmptyData),
     [ShapeA("call.connected", "c1", At(0), EmptyData)
        EXCEPT !.event_type = Absent]}

Payloads == GoodPayloads \cup BadPayloads

\* the payloads during whose processing something raises
FaultyPayloads ==
    {ShapeA("call.initiated", "c1", At(0), FullData),
     ShapeA("call.completed", "c1", At(0), EmptyData),
     ShapeA("custom.event", "c1", At(0), EmptyData)}

\* ------------------------------------------------- _parse_webhook_event
\* a parse that takes the time of every string, whatever its format: what
\* C19 is measured against
ParseAnyString(ts, now) == IF ts.kind = "str" THEN ts.t ELSE now

\* events.py 117-135: the first known format that matches gives the parsed
\* time; anything else gives datetime.utcnow()
ParseTimestamp(ts, now) ==
    IF ts.kind \in {"absent", "empty", "falsy"} THEN now
    ELSE IF ts.kind = "str"
         THEN IF ts.fmt \in KnownFormats THEN ts.t ELSE now
         ELSE now

TsOr(a, b) == IF a.kind \in {"absent", "empty", "falsy"} THEN b ELSE a

\* payload.get('data', {})
DataOf(box) == IF box = <<>> THEN EmptyData ELSE box[1]

\* the payload itself taken as event data: it holds its own keys and none
\* of the keys the handlers read
Whole(payload) ==
    [EmptyData EXCEPT !.type = Get(payload.type),
                      !.callId = Get(payload.callId)]

\* Shape B data that defaults to {} as Shape A's does: what C20 is measured
\* against
PayloadOrEmpty(payload) == DataOf(payload.payload)

\* payload.get('payload', payload)
PayloadOf(payload) ==
    IF payload.payload = <<>> THEN Whole(payload) ELSE payload.payload[1]

\* normalisation without the "if not call_id" check of lines 113-115: what
\* C8 is measured against
ParseWithoutCallIdCheck(payload, now) ==
    IF payload.event_type # Absent
    THEN [event_type |-> payload.event_type,
          call_id |-> Get(payload.call_id),
          timestamp |-> ParseTimestamp(payload.timestamp, now),
          data |-> DataOf(payload.data)]
    ELSE IF payload.type # Absent
    THEN [event_type |-> payload.type,
          call_id |-> Or(Get(payload.callId), Get(payload.call_id)),
          timestamp |-> ParseTimestamp(
                           TsOr(payload.createdAt, payload.timestamp), now),
          data |-> PayloadOf(payload)]
    ELSE NoEvent

\* events.py 93-147
_parse_webhook_event(payload, now) ==
    IF payload.event_type # Absent
    THEN IF ~Truthy(Get(payload.call_id)) THEN NoEvent
         ELSE [event_type |-> payload.event_type,
               call_id |-> payload.call_id,
               timestamp |-> ParseTimestamp(payload.timestamp, now),
               data |-> DataOf(payload.data)]
    ELSE IF payload.type # Absent
    THEN IF ~Truthy(Or(Get(payload.callId), Get(payload.call_id)))
         THEN NoEvent
         ELSE [event_type |-> payload.type,
               call_id |-> Or(Get(payload.callId), Get(payload.call_id)),
               timestamp |-> ParseTimestamp(
                                TsOr(payload.createdAt, payload.timestamp),
                                now),
               data |-> PayloadOf(payload)]
    ELSE NoEvent

\* why _parse_webhook_event returned None (the error it logs)
ParseError(payload) ==
    IF payload.event_type = Absent /\ payload.type = Absent
    THEN "unknown_format"
    ELSE "missing_call_id"


\* --------------------------------------------------------- phone numbers
\* the phonenumbers library: which inputs parse to a valid number, and the
\* E.164 form of those
IsValidNumber(s) == s \in {"(415) 555-2671"}
FormatE164(s) == IF s = "(415) 555-2671" THEN "+14155552671" ELSE None

\* a phone value held by a row or passed around: a plain string, or the
\* result dict of the validator
PhoneStr(s) == [type |-> "str", text |-> s, is_valid |-> FALSE,
                formatted_e164 |-> None]

\* validation/phone_validator.py 16-104, 175-187: always a dict
validate_phone_number(s) ==
    [type |-> "dict", text |-> None, is_valid |-> IsValidNumber(s),
     formatted_e164 |-> IF IsValidNumber(s) THEN FormatE164(s) ELSE None]

\* truth value of a phone value: a non-empty dict is true
PhoneTruthy(p) == p.type = "dict" \/ Truthy(p.text)

\* ------------------------------------------------------------- the store
\* a lookup that never finds a row: what C5 is measured against
FindNothing(rows, id) == 0

\* db.query(CallLog).filter(CallLog.call_id == id).first(): the primary key
\* of the first row with that call_id, 0 when there is none
FindCall(rows, id) ==
    IF \E i \in 1..Len(rows) : rows[i].call_id = id
    THEN CHOOSE i \in 1..Len(rows) :
            /\ rows[i].call_id = id
            /\ \A j \in 1..(i - 1) : rows[j].call_id # id
    ELSE 0

\* models.py 28 and 16: unique=True on call_logs.call_id, customers.phone
UniqueCallId(rows) ==
    \A i, j \in 1..Len(rows) : rows[i].call_id = rows[j].call_id => i = j
UniquePhone(rows) ==
    \A i, j \in 1..Len(rows) : rows[i].phone = rows[j].phone => i = j

\* CallEvent(...) (models.py 56-66) as the handlers fill it
CallEvent(call_log_id, call_id, event) ==
    [call_log_id |-> call_log_id, call_id |-> call_id,
     event_type |-> event.event_type, event_data |-> event.data]

\* a transaction scope without the rollback of connection.py 67-68: what C9
\* is measured against
SessionWithoutRollback(committed, work, raised) == work

\* database/connection.py 61-73: the block's work is committed when the
\* block ends normally; when it raises, what was not committed yet is
\* rolled back and the exception goes on to the caller
get_db_session(committed, work, raised) ==
    IF raised THEN committed ELSE work

Tables(cl, ce, cu) == [call_logs |-> cl, call_events |-> ce, customers |-> cu]
Current == Tables(call_logs, call_events, customers)

\* an upsert that never looks the phone up: what C29 is measured against
CreateCustomer(rows, name, phone, email) ==
    Append(rows, [name |-> name, phone |-> phone, email |-> email])

\* database/connection.py 89-113
get_or_create_customer(rows, name, phone, email) ==
    LET i == IF \E k \in 1..Len(rows) : rows[k].phone = phone
             THEN CHOOSE k \in 1..Len(rows) : rows[k].phone = phone
             ELSE 0
    IN  IF i = 0
        THEN Append(rows, [name |-> name, phone |-> phone, email |-> email])
        ELSE [rows EXCEPT
                ![i].name = name,
                ![i].email = IF Truthy(email) THEN email ELSE @]

\* WebhookEventProcessor._upsert_customer (called at events.py 210)
_upsert_customer(rows, name, phone, email) ==
    get_or_create_customer(rows, name, phone, email)


\* --------------------------------------------------------------- handlers
\* Where a handler can be interrupted: "in_tx" is an exception raised
\* inside the with-block before db.commit(); "after_commit" is one raised
\* after the handler's own db.commit() (the metrics hook, or the commit the
\* context manager issues when the block ends)
HandlerFaults == {"none", "in_tx", "after_commit"}

\* One with-block: partial is what the session holds when "in_tx" strikes,
\* staged what it holds at db.commit().  The commit raises when a unique
\* constraint is violated.
Transaction(db, partial, staged, fault) ==
    LET violates == \/ ~UniqueCallId(staged.call_logs)
                    \/ ~UniquePhone(staged.customers)
    IN  IF fault = "in_tx"
        THEN [tables |-> get_db_session(db, partial, TRUE),
              ret |-> FALSE]
        ELSE IF violates
        THEN [tables |-> get_db_session(db, staged, TRUE),
              ret |-> FALSE]
        ELSE IF fault = "after_commit"
        THEN [tables |-> get_db_session(staged, staged, TRUE),
              ret |-> FALSE]
        ELSE [tables |-> get_db_session(db, staged, FALSE),
              ret |-> TRUE]

\* the tail every record handler shares: the CallEvent is db.add()ed after
\* the CallLog was changed, then db.commit()
UpdateAndLog(db, rows, call_event, custs, fault) ==
    Transaction(db, Tables(rows, db.call_events, db.customers),
                Tables(rows, Append(db.call_events, call_event), custs),
                fault)

\* a with-block left by "return False" without having changed anything
NotFound(db) == [tables |-> db, ret |-> FALSE]

\* events.py 183-193
NewCallLog(event, name, phone, email, query) ==
    [call_id |-> event.call_id,
     room_name |-> event.data.room_name,
     dispatch_id |-> event.data.dispatch_id,
     customer_name |-> name,
     customer_phone |-> phone,
     customer_email |-> email,
     customer_query |-> query,
     status |-> "initiated",
     call_started_at |-> {event.timestamp},
     call_connected_at |-> NoTime,
     call_ended_at |-> NoTime,
     duration |-> NoTime,
     recording_url |-> None,
     recording_duration |-> None,
     transcript_url |-> None,
     error_details |-> None]

\* a call.initiated handler that rewrites the customer fields of the record
\* it finds: what C30 is measured against
InitiatedRewritesCustomer(db, event, fault) ==
    LET i == FindCall(db.call_logs, event.call_id)
        phone == PhoneStr(Or(event.data.customer_phone, event.data.to))
        row == NewCallLog(event, event.data.customer_name, phone,
                          event.data.customer_email,
                          Or(event.data.customer_query, event.data.query))
        rows == IF i = 0 THEN Append(db.call_logs, row)
                ELSE [db.call_logs EXCEPT ![i] = row]
    IN  UpdateAndLog(db, rows,
                     CallEvent(IF i = 0 THEN {} ELSE {i}, None, event),
                     db.customers, fault)

\* events.py 163-218
_handle_call_initiated(db, event, fault) ==
    LET data == event.data
        phone0 == Or(data.customer_phone, data.to)
        customer_name == data.customer_name
        customer_email == data.customer_email
        customer_query == Or(data.customer_query, data.query)
        validated_phone == validate_phone_number(phone0)
        customer_phone == IF Truthy(phone0) /\ PhoneTruthy(validated_phone)
                          THEN validated_phone
                          ELSE PhoneStr(phone0)
        i == FindCall(db.call_logs, event.call_id)
        rows == IF i = 0
                THEN Append(db.call_logs,
                            NewCallLog(event, customer_name, customer_phone,
                                       customer_email, customer_query))
                ELSE [db.call_logs EXCEPT
                        ![i].status = "initiated",
                        ![i].call_started_at = {event.timestamp}]
        \* call_log.id of a row that was only db.add()ed is still None
        call_event == CallEvent(IF i = 0 THEN {} ELSE {i}, None, event)
        custs == IF PhoneTruthy(customer_phone)
                 THEN _upsert_customer(db.customers, customer_name,
                                       customer_phone, customer_email)
                 ELSE db.customers
    IN  UpdateAndLog(db, rows, call_event, custs, fault)

\* events.py 368-390
_update_call_status(db, event, status, error_details, fault) ==
    LET i == FindCall(db.call_logs, event.call_id)
        rows == [db.call_logs EXCEPT
                    ![i].status = status,
                    ![i].error_details =
                        IF Truthy(error_details) THEN error_details ELSE @]
        call_event == CallEvent({i}, None, event)
    IN  IF i = 0 THEN NotFound(db)
        ELSE UpdateAndLog(db, rows, call_event, db.customers, fault)

\* events.py 220-226
_handle_call_connected(db, event, fault) ==
    _update_call_status(db, event, "connected", None, fault)
_handle_call_answered(db, event, fault) ==
    _update_call_status(db, event, "answered", None, fault)

\* events.py 228-257
_handle_call_completed(db, event, fault) ==
    LET i == FindCall(db.call_logs, event.call_id)
        rows == [db.call_logs EXCEPT
                    ![i].status = "completed",
                    ![i].call_ended_at = {event.timestamp},
                    ![i].duration =
                        IF db.call_logs[i].call_started_at # NoTime
                        THEN {event.timestamp - t :
                                t \in db.call_logs[i].call_started_at}
                        ELSE NoTime]
        call_event == CallEvent({i}, None, event)
    IN  IF i = 0 THEN NotFound(db)
        ELSE UpdateAndLog(db, rows, call_event, db.customers, fault)

\* events.py 259-273
_handle_call_failed(db, event, fault) ==
    _update_call_status(db, event, "failed", event.data.error, fault)
_handle_call_cancelled(db, event, fault) ==
    _update_call_status(db, event, "cancelled", None, fault)
_handle_call_no_answer(db, event, fault) ==
    _update_call_status(db, event, "no_answer", None, fault)
_handle_call_busy(db, event, fault) ==
    _update_call_status(db, event, "busy", None, fault)

\* events.py 275-296
_handle_recording_ready(db, event, fault) ==
    LET i == FindCall(db.call_logs, event.call_id)
        rows == [db.call_logs EXCEPT
                    ![i].recording_url = event.data.recording_url,
                    ![i].recording_duration = event.data.duration]
        call_event == CallEvent({i}, None, event)
    IN  IF i = 0 THEN NotFound(db)
        ELSE UpdateAndLog(db, rows, call_event, db.customers, fault)

\* events.py 298-318
_handle_transcript_ready(db, event, fault) ==
    LET i == FindCall(db.call_logs, event.call_id)
        rows == [db.call_logs EXCEPT
                    ![i].transcript_url = event.data.transcript_url]
        call_event == CallEvent({i}, None, event)
    IN  IF i = 0 THEN NotFound(db)
        ELSE UpdateAndLog(db, rows, call_event, db.customers, fault)

\* an error event that also marks the call failed: what C22 is measured
\* against
ErrorFailsCall(db, event, fault) ==
    _update_call_status(db, event, "failed", event.data.error, fault)

\* events.py 328-350
_handle_error_occurred(db, event, fault) ==
    LET i == FindCall(db.call_logs, event.call_id)
        rows == [db.call_logs EXCEPT ![i].error_details = event.data.error]
        call_event == CallEvent({i}, None, event)
    IN  IF i = 0 THEN NotFound(db)
        ELSE UpdateAndLog(db, rows, call_event, db.customers, fault)

\* a handler that turns the event away and logs nothing: what C21 is
\* measured against
RejectEvent(db, event, fault) == [tables |-> db, ret |-> FALSE]

\* events.py 392-406
_log_participant_event(db, event, fault) ==
    Transaction(db, db,
                Tables(db.call_logs,
                       Append(db.call_events,
                              CallEvent({}, event.call_id, event)),
                       db.customers),
                fault)

\* events.py 320-326
_handle_participant_joined(db, event, fault) ==
    _log_participant_event(db, event, fault)
_handle_participant_left(db, event, fault) ==
    _log_participant_event(db, event, fault)

\* events.py 352-366
_handle_unknown_event(db, event, fault) ==
    Transaction(db, db,
                Tables(db.call_logs,
                       Append(db.call_events,
                              CallEvent({}, event.call_id, event)),
                       db.customers),
                fault)

\* the handler _process_event picks (events.py 152-155)
HandlerOf(event_type) ==
    IF event_type \in DOMAIN event_handlers
    THEN event_handlers[event_type]
    ELSE "_handle_unknown_event"

\* events.py 149-161
_process_event(db, event, fault) ==
    LET h == HandlerOf(event.event_type)
    IN  CASE h = "_handle_call_initiated" ->
                _handle_call_initiated(db, event, fault)
          [] h = "_handle_call_connected" ->
                _handle_call_connected(db, event, fault)
          [] h = "_handle_call_answered" ->
                _handle_call_answered(db, event, fault)
          [] h = "_handle_call_completed" ->
                _handle_call_completed(db, event, fault)
          [] h = "_handle_call_failed" -> _handle_call_failed(db, event, fault)
          [] h = "_handle_call_cancelled" ->
                _handle_call_cancelled(db, event, fault)
          [] h = "_handle_call_no_answer" ->
                _handle_call_no_answer(db, event, fault)
          [] h = "_handle_call_busy" -> _handle_call_busy(db, event, fault)
          [] h = "_handle_recording_ready" ->
                _handle_recording_ready(db, event, fault)
          [] h = "_handle_transcript_ready" ->
                _handle_transcript_ready(db, event, fault)
          [] h = "_handle_participant_joined" ->
                _handle_participant_joined(db, event, fault)
          [] h = "_handle_participant_left" ->
                _handle_participant_left(db, event, fault)
          [] h = "_handle_error_occurred" ->
                _handle_error_occurred(db, event, fault)
          [] OTHER -> _handle_unknown_event(db, event, fault)


\* -------------------------------------------------------- process_webhook
\* "log": _log_webhook raises; "update": _update_webhook_log raises; the
\* others strike inside the handler
Faults == HandlerFaults \cup {"log", "update"}

\* WebhookEventProcessor._log_webhook (called at events.py 73): one row of
\* the inbound webhook log, not yet marked with a result
_log_webhook(rows) == Append(rows, "pending")

\* WebhookEventProcessor._update_webhook_log (called at events.py 85)
_update_webhook_log(rows, webhook_log_id, success) ==
    [rows EXCEPT ![webhook_log_id] = IF success THEN "processed" ELSE "failed"]

\* events.py 81-87: the event parsed, its handler run, the result recorded
Processed(logged, event, r, f) ==
    [tables |-> r.tables,
     inbound |-> IF f = "update" THEN logged
                 ELSE _update_webhook_log(logged, Len(logged), r.ret),
     ret |-> IF f = "update" THEN FALSE ELSE r.ret,
     stage |-> "handled", error |-> None, event |-> event,
     handler |-> HandlerOf(event.event_type)]

\* events.py 76-87
Parsed(payload, logged, event, f) ==
    IF event = NoEvent
    THEN [tables |-> Current, inbound |-> logged, ret |-> FALSE,
          stage |-> "rejected", error |-> ParseError(payload),
          event |-> NoEvent, handler |-> None]
    ELSE Processed(logged, event,
                   _process_event(Current, event,
                                  IF f \in HandlerFaults THEN f ELSE "none"),
                   f)

\* a process_webhook without its try/except, which lets what _log_webhook or
\* _update_webhook_log raises reach the caller: what C32 is measured against
ProcessWebhookWithoutTry(payload, f) ==
    IF f \in {"log", "update"}
    THEN [tables |-> Current, inbound |-> inbound, ret |-> FALSE,
          stage |-> "raised", error |-> None, event |-> NoEvent,
          handler |-> None]
    ELSE Parsed(payload, _log_webhook(inbound),
                _parse_webhook_event(payload, clock), f)

\* events.py 69-91
process_webhook(payload, f) ==
    IF f = "log"
    THEN [tables |-> Current, inbound |-> inbound, ret |-> FALSE,
          stage |-> "log_failed", error |-> None, event |-> NoEvent,
          handler |-> None]
    ELSE Parsed(payload, _log_webhook(inbound),
                _parse_webhook_event(payload, clock), f)

\* -------------------------------------------------------------- sessions
\* database/connection.py: the units of work that open a transaction scope,
\* and the thread each runs in.  The retry sweep and the scopes of
\* _attempt_webhook_delivery and _schedule_webhook_retry are coroutines of
\* one event loop (handlers.py 171, 110, 151); a webhook handler runs in a
\* request thread (events.py 166).
Units == {"sweep", "attempt", "schedule", "handler"}
Thread(unit) == IF unit = "handler" THEN "request" ELSE "loop"
Threads == {Thread(u) : u \in Units}

\* a session nothing was done with
NewSession == [pending |-> {}, attached |-> {}, active |-> FALSE]

\* a close that releases nothing: what C15 is measured against
CloseNothing(s) == s

\* connection.py 72: db.close() ends the transaction, expunges every object
\* and releases the connection
close(s) == NewSession

\* how a with-block can end: by running to its end, by a return inside
\* it, by an exception raised in it, by db.commit() at line 65 raising, or
\* by a BaseException (which "except Exception" does not catch)
ExitPaths == {"normal", "return", "raise", "commit_fails", "base_exception"}
Raises(path) == path \notin {"normal", "return"}

\* connection.py 63-72: what leaving the with-block does to the session s
\* and to the committed rows
ScopeExit(s, rows, path) ==
    [session |-> close(s),
     store |-> get_db_session(rows, rows \cup s.pending, Raises(path)),
     reraised |-> Raises(path)]

\* The blocks of _attempt_webhook_delivery and _schedule_webhook_retry hold
\* no await (handlers.py 110-126, 151-161), so no other coroutine of the
\* loop runs while one of them is open; the sweep's block awaits both
\* (handlers.py 188, 195), and a request thread runs at any time.
Runnable(u) ==
    \A o \in {"attempt", "schedule"} \ {u} :
        Thread(u) = Thread(o) => scope[o] = 0

SessionInit ==
    /\ session = [t \in Threads |-> NewSession]
    /\ scope = [u \in Units |-> 0]
    /\ store = {}
    /\ entered = 0
    /\ lastExit = [unit |-> None, path |-> None, reraised |-> FALSE]

\* connection.py 52-54, 62-64: get_db_session takes SessionLocal(), the
\* session of the calling thread, and yields it
EnterScope ==
    \E u \in Units :
        /\ scope[u] = 0
        /\ Runnable(u)
        /\ entered < MaxScopes
        /\ entered' = entered + 1
        /\ scope' = [scope EXCEPT ![u] = entered + 1]
        /\ session' = [session EXCEPT
                          ![Thread(u)].attached = @ \cup {u},
                          ![Thread(u)].active = TRUE]
        /\ UNCHANGED <<store, lastExit, EventVars, webhook_logs, utcnow,
                       MetricsVars, AuxVars>>

\* inside the block: a row the unit loaded or added is changed.  The change
\* is pending in the session while the row belongs to it; a change to a
\* detached row reaches no session
WriteInScope ==
    \E u \in Units :
        /\ scope[u] # 0
        /\ Runnable(u)
        /\ <<u, scope[u]>> \notin session[Thread(u)].pending \cup store
        /\ u \in session[Thread(u)].attached
        /\ session' = [session EXCEPT
                          ![Thread(u)].pending = @ \cup {<<u, scope[u]>>}]
        /\ UNCHANGED <<scope, store, entered, lastExit, EventVars,
                       webhook_logs, utcnow, MetricsVars, AuxVars>>

\* the with-block of unit u ends
ExitScope ==
    \E u \in Units, path \in ExitPaths :
        \E r \in {ScopeExit(session[Thread(u)], store, path)} :
            /\ scope[u] # 0
            /\ Runnable(u)
            /\ path = "commit_fails" => session[Thread(u)].pending # {}
            /\ scope' = [scope EXCEPT ![u] = 0]
            /\ session' = [session EXCEPT ![Thread(u)] = r.session]
            /\ store' = r.store
            /\ lastExit' = [unit |-> u, path |-> path,
                            reraised |-> r.reraised]
            /\ UNCHANGED <<entered, EventVars, webhook_logs, utcnow,
                           MetricsVars, AuxVars>>

SessionNext ==
    \/ EnterScope
    \/ WriteInScope
    \/ ExitScope

\* ---------------------------------------------------------------- actions
\* --------------------------------------------------------------- metrics
\* monitoring/metrics.py and monitoring/collectors.py: each has a
\* MetricsCollector with a cache of its own.  A query is a collector's
\* method and the window parameter that makes its cache key.
cache_duration == 300       \* metrics.py 16
cache_ttl == 300            \* collectors.py 38
Day == 86400

Dates == {0}                \* collect_daily_metrics(date): the day asked for
Windows == {1}              \* get_metrics_summary(days)

Queries ==
    {[method |-> "metrics.collect_daily_metrics", key |-> d] : d \in Dates}
    \cup {[method |-> "collectors.get_metrics_summary", key |-> n] :
            n \in Windows}

Callers == {"r1", "r2"}     \* request threads

\* the instants the clock can show
Instants ==
    {d * Day + o : d \in 0..MaxDays, o \in {0, 100, cache_ttl}}

\* timedelta.seconds: the seconds of the difference without its whole days
Seconds(delta) == delta % Day
\* timedelta.total_seconds()
TotalSeconds(delta) == delta

\* a cache entry is <<>> when the key is not in the dict
NoEntry == <<>>
Entry(data, t) == <<[data |-> data, timestamp |-> t]>>

EntryOf(q) ==
    IF q.method = "metrics.collect_daily_metrics"
    THEN metrics_cache[q.key]
    ELSE cache[q.key]

\* metrics.py 26-29
MetricsCacheValid(entry, t) ==
    /\ entry # NoEntry
    /\ Seconds(t - entry[1].timestamp) < cache_duration

\* collectors.py 481-487
_is_cache_valid(entry, t) ==
    /\ entry # NoEntry
    /\ TotalSeconds(t - entry[1].timestamp) < cache_ttl

Valid(q, entry, t) ==
    IF q.method = "metrics.collect_daily_metrics"
    THEN MetricsCacheValid(entry, t)
    ELSE _is_cache_valid(entry, t)

\* the calls a query counts (metrics.py 33-45, collectors.py 124-136):
\* total_calls
TotalCalls(rows, q, t) ==
    Cardinality(
        {i \in 1..Len(rows) :
            \E s \in rows[i].call_started_at :
                IF q.method = "metrics.collect_daily_metrics"
                THEN q.key * Day <= s /\ s < (q.key + 1) * Day
                ELSE t - q.key * Day <= s /\ s <= t})

Idle == [pc |-> "idle"]

MetricsInit ==
    /\ metrics_cache = [d \in Dates |-> NoEntry]
    /\ cache = [n \in Windows |-> NoEntry]
    /\ in_flight = [c \in Callers |-> Idle]
    /\ answer = [n |-> 0, caller |-> None, query |-> None, cached |-> FALSE,
                 data |-> 0, age |-> 0]

\* the cache check a query starts with, and its return when the entry is
\* valid (metrics.py 26-29, collectors.py 120-121)
CheckCache ==
    \E c \in Callers, q \in Queries :
       /\ in_flight[c] = Idle
       /\ answer.n < MaxQueries
       /\ IF Valid(q, EntryOf(q), utcnow)
          THEN /\ answer' = [n |-> answer.n + 1, caller |-> c, query |-> q,
                             cached |-> TRUE, data |-> EntryOf(q)[1].data,
                             age |-> utcnow - EntryOf(q)[1].timestamp]
               /\ UNCHANGED in_flight
          ELSE /\ in_flight' = [in_flight EXCEPT
                              ![c] = [pc |-> "missed", query |-> q]]
               /\ answer' = [n |-> answer.n + 1, caller |-> c, query |-> q,
                             cached |-> FALSE, data |-> 0, age |-> 0]
       /\ UNCHANGED <<metrics_cache, cache, utcnow, webhook_logs, EventVars,
                      SessionVars, AuxVars>>

\* the query against the store (metrics.py 31-71, collectors.py 123-172);
\* get_metrics_summary of collectors.py returns at lines 138-139, without
\* caching, when it finds no call
Recompute ==
    \E c \in Callers :
       /\ in_flight[c].pc = "missed"
       /\ \E n \in {TotalCalls(call_logs, in_flight[c].query, utcnow)} :
            IF /\ in_flight[c].query.method
                    = "collectors.get_metrics_summary"
               /\ n = 0
            THEN /\ in_flight' = [in_flight EXCEPT ![c] = Idle]
                 /\ answer' = [answer EXCEPT !.caller = c,
                                             !.query = in_flight[c].query,
                                             !.cached = FALSE, !.data = 0,
                                             !.age = 0]
            ELSE /\ in_flight' = [in_flight EXCEPT
                                ![c] = [pc |-> "computed",
                                        query |-> in_flight[c].query,
                                        data |-> n]]
                 /\ UNCHANGED answer
       /\ UNCHANGED <<metrics_cache, cache, utcnow, webhook_logs, EventVars,
                      SessionVars, AuxVars>>

\* metrics.py 74, collectors.py 174 and 489-494: the result is cached with
\* the time of the write, and returned
CacheResult ==
    \E c \in Callers :
       /\ in_flight[c].pc = "computed"
       /\ IF in_flight[c].query.method = "metrics.collect_daily_metrics"
          THEN /\ metrics_cache' =
                     [metrics_cache EXCEPT
                        ![in_flight[c].query.key] =
                            Entry(in_flight[c].data, utcnow)]
               /\ UNCHANGED cache
          ELSE /\ cache' =
                     [cache EXCEPT
                        ![in_flight[c].query.key] =
                            Entry(in_flight[c].data, utcnow)]
               /\ UNCHANGED metrics_cache
       /\ answer' = [answer EXCEPT !.caller = c,
                                   !.query = in_flight[c].query,
                                   !.cached = FALSE,
                                   !.data = in_flight[c].data, !.age = 0]
       /\ in_flight' = [in_flight EXCEPT ![c] = Idle]
       /\ UNCHANGED <<utcnow, webhook_logs, EventVars, SessionVars, AuxVars>>

\* a call is recorded in the store (events.py 163-218), starting now
CallStarts ==
    \E id \in {"c1"} :
       /\ FindCall(call_logs, id) = 0
       /\ \E r \in {_handle_call_initiated(
                       Current,
                       [event_type |-> "call.initiated", call_id |-> id,
                        timestamp |-> utcnow, data |-> EmptyData],
                       "none")} :
            /\ call_logs' = r.tables.call_logs
            /\ call_events' = r.tables.call_events
            /\ customers' = r.tables.customers
       /\ UNCHANGED <<inbound, clock, received, last, utcnow, webhook_logs,
                      SessionVars, MetricsVars, AuxVars>>

\* time passes
Elapse ==
    \E t \in Instants :
       /\ t > utcnow
       /\ utcnow' = t
       /\ UNCHANGED <<webhook_logs, EventVars, SessionVars, MetricsVars, AuxVars>>

MetricsNext ==
    CheckCache \/ Recompute \/ CacheResult \/ CallStarts \/ Elapse

\* ------------------------------------------------------ overlapping sweeps
\* Invocations of process_webhook_retries (one per sweeper in a behaviour)
\* that may run at the same time, each in
\* a thread of its own (app.py 87-96 runs a coroutine on a fresh event loop
\* in a pool thread), so each with a session of its own (connection.py 44)
Sweepers == {"s1", "s2"}

\* pending: the rows its query returned and it has not come to yet; due:
\* the next_retry_at each of them had then; attached: whether its rows still
\* belong to its session; tried: the scheduled retries it has attempted
IdleSweep == [pc |-> "idle", pending |-> {}, due |-> {}, attached |-> TRUE,
              tried |-> {}]

\* ------------------------------------------------- concurrent transactions
\* Two requests that run _handle_call_initiated at the same time, each in a
\* thread of its own.  The engine is made by DatabaseManager.initialize
\* (connection.py 18-42): for an sqlite URL (the default, line 25) with
\* StaticPool, which hands every session the one DBAPI connection; for any
\* other URL with a pool of connections.
Workers == {"w1", "w2"}
Engines == {"static", "pooled"}
NoWork == {}             \* a connection without an open transaction
Connections == Workers \cup {"shared"}

\* pc: where the request is; event: the event it handles; found: whether
\* its query (events.py 181) returned a record; ret: what the handler
\* returned
IdleTxn == [pc |-> "idle", event |-> NoEvent, found |-> FALSE, ret |-> FALSE]

RaceInit ==
    [engine |-> "unset",
     working |-> [c \in Connections |-> NoWork],
     txn |-> [w \in Workers |-> IdleTxn]]

\* ------------------------------------------------------------ the route
\* the /webhook route of app.py (199-228): pc says whether a request is
\* between process_webhook and event_queue.put; input is the payload and the
\* fault of that request; status is the HTTP status of the last response
IdleRoute == [pc |-> "idle", input |-> <<>>, status |-> 0]

\* ------------------------------------------------------- the rate limiter
\* security/auth.py 147-194.  requests is RateLimiter.requests (a key that
\* is not in the dict has no entry); now is datetime.utcnow() in seconds;
\* admitted is every admission made so far, with its time (history, not a
\* field); calls counts the calls and call is the last one
Identifiers == {"ip1", "ip2"}
NoCall == [identifier |-> None, limit |-> 0, window |-> 0, at |-> 0,
           allowed |-> FALSE, remaining |-> 0]

LimiterInit ==
    [requests |-> [id \in Identifiers |-> <<>>],
     admitted |-> [id \in Identifiers |-> <<>>],
     now |-> 0, calls |-> 0, call |-> NoCall]

\* ----------------------------------------------------------- migrations
\* database/migrations.py.  schema_migrations is the table of that name (the
\* names recorded as completed); applied is the migrations that have run to
\* their end, each as often as it did (history, not a table); runs counts
\* the invocations of run_migrations; last is the last invocation: the
\* names recorded when it began, the migrations it started, in order, and
\* what it returned
NoRun == [completed |-> {}, ran |-> <<>>, ret |-> FALSE]

MigrateInit ==
    [schema_migrations |-> {}, applied |-> <<>>, runs |-> 0, last |-> NoRun]

Init ==
    /\ call_logs = <<>>
    /\ call_events = <<>>
    /\ customers = <<>>
    /\ inbound = <<>>
    /\ clock = 0
    /\ received = 0
    /\ last = [stage |-> "init", error |-> None, event |-> NoEvent,
               handler |-> None, fault |-> "none", ret |-> FALSE]
    /\ webhook_logs = <<>>
    /\ utcnow = 0
    /\ SessionInit
    /\ MetricsInit
    /\ sweeps = [s \in Sweepers |-> IdleSweep]
    /\ race = RaceInit
    /\ event_queue = <<>>
    /\ route = IdleRoute
    /\ limiter = LimiterInit
    /\ migrate = MigrateInit

\* one call of process_webhook, from the /webhook route
Webhook(payload, f, stage, handler) ==
    \E r \in {process_webhook(payload, f)} :
        /\ r.stage = stage
        /\ r.handler = handler
        /\ call_logs' = r.tables.call_logs
        /\ call_events' = r.tables.call_events
        /\ customers' = r.tables.customers
        /\ inbound' = r.inbound
        /\ received' = received + 1
        /\ last' = [stage |-> r.stage, error |-> r.error, event |-> r.event,
                    handler |-> r.handler, fault |-> f, ret |-> r.ret]
        /\ UNCHANGED <<clock, webhook_logs, utcnow, SessionVars,
                       MetricsVars, AuxVars>>

\* the tag a payload carries
TagOf(p) == IF p.event_type # Absent THEN p.event_type ELSE p.type

\* what the /webhook route can be handed: a payload, and where (if anywhere)
\* its processing is interrupted
Inputs ==
    {<<p, "none">> : p \in GoodPayloads}
    \cup {<<p, f>> : p \in FaultyPayloads, f \in Faults \ {"none", "log"}}

InputsFor(h) == {x \in Inputs : HandlerOf(TagOf(x[1])) = h}

HandleCallInitiated ==
    \E x \in InputsFor("_handle_call_initiated") :
        /\ received < MaxEvents
        /\ Webhook(x[1], x[2], "handled", "_handle_call_initiated")
HandleCallConnected ==
    \E x \in InputsFor("_handle_call_connected") :
        /\ received < MaxEvents
        /\ Webhook(x[1], x[2], "handled", "_handle_call_connected")
HandleCallAnswered ==
    \E x \in InputsFor("_handle_call_answered") :
        /\ received < MaxEvents
        /\ Webhook(x[1], x[2], "handled", "_handle_call_answered")
HandleCallCompleted ==
    \E x \in InputsFor("_handle_call_completed") :
        /\ received < MaxEvents
        /\ Webhook(x[1], x[2], "handled", "_handle_call_completed")
HandleCallFailed ==
    \E x \in InputsFor("_handle_call_failed") :
        /\ received < MaxEvents
        /\ Webhook(x[1], x[2], "handled", "_handle_call_failed")
HandleCallCancelled ==
    \E x \in InputsFor("_handle_call_cancelled") :
        /\ received < MaxEvents
        /\ Webhook(x[1], x[2], "handled", "_handle_call_cancelled")
HandleCallNoAnswer ==
    \E x \in InputsFor("_handle_call_no_answer") :
        /\ received < MaxEvents
        /\ Webhook(x[1], x[2], "handled", "_handle_call_no_answer")
HandleCallBusy ==
    \E x \in InputsFor("_handle_call_busy") :
        /\ received < MaxEvents
        /\ Webhook(x[1], x[2], "handled", "_handle_call_busy")
HandleRecordingReady ==
    \E x \in InputsFor("_handle_recording_ready") :
        /\ received < MaxEvents
        /\ Webhook(x[1], x[2], "handled", "_handle_recording_ready")
HandleTranscriptReady ==
    \E x \in InputsFor("_handle_transcript_ready") :
        /\ received < MaxEvents
        /\ Webhook(x[1], x[2], "handled", "_handle_transcript_ready")
HandleParticipantJoined ==
    \E x \in InputsFor("_handle_participant_joined") :
        /\ received < MaxEvents
        /\ Webhook(x[1], x[2], "handled", "_handle_participant_joined")
HandleParticipantLeft ==
    \E x \in InputsFor("_handle_participant_left") :
        /\ received < MaxEvents
        /\ Webhook(x[1], x[2], "handled", "_handle_participant_left")
HandleErrorOccurred ==
    \E x \in InputsFor("_handle_error_occurred") :
        /\ received < MaxEvents
        /\ Webhook(x[1], x[2], "handled", "_handle_error_occurred")
HandleUnknownEvent ==
    \E x \in InputsFor("_handle_unknown_event") :
        /\ received < MaxEvents
        /\ Webhook(x[1], x[2], "handled", "_handle_unknown_event")

\* the payload does not normalise: process_webhook returns at line 79
RejectPayload ==
    \E p \in BadPayloads :
        /\ received < MaxEvents
        /\ Webhook(p, "none", "rejected", None)

\* _log_webhook raises: process_webhook returns from its except clause
LogWebhookFails ==
    \E p \in FaultyPayloads :
        /\ received < MaxEvents
        /\ Webhook(p, "log", "log_failed", None)

\* time passes (datetime.utcnow() is read from clock)
Tick ==
    /\ clock < MaxTime
    /\ clock' = clock + 1
    /\ UNCHANGED <<call_logs, call_events, customers, inbound, received, last,
                   webhook_logs, utcnow, SessionVars, MetricsVars, AuxVars>>

Next ==
    \/ HandleCallInitiated
    \/ HandleCallConnected
    \/ HandleCallAnswered
    \/ HandleCallCompleted
    \/ HandleCallFailed
    \/ HandleCallCancelled
    \/ HandleCallNoAnswer
    \/ HandleCallBusy
    \/ HandleRecordingReady
    \/ HandleTranscriptReady
    \/ HandleParticipantJoined
    \/ HandleParticipantLeft
    \/ HandleErrorOccurred
    \/ HandleUnknownEvent
    \/ RejectPayload
    \/ LogWebhookFails
    \/ Tick

Spec == Init /\ [][Next]_vars

SessionSpec == Init /\ [][SessionNext]_vars

MetricsSpec == Init /\ [][MetricsNext]_vars


\* ============================================================== delivery
\* webhooks/handlers.py: WebhookManager.  webhook_logs holds the WebhookLog
\* rows (models.py 88-103), utcnow is datetime.utcnow() in seconds.

\* handlers.py 17, 18: the defaults of WEBHOOK_MAX_RETRIES, WEBHOOK_RETRY_DELAY
max_retries == 3
retry_delay == 60

\* handlers.py 20-35: the URLs the environment configures
webhook_urls == <<"u1", "u2">>

\* what a POST to a target can come to (handlers.py 106-146): a 2xx
\* response, any other response, asyncio.TimeoutError, or another exception
\* (a network error)
Outcomes == {"2xx", "non2xx", "timeout", "error"}

\* the outcomes that make _attempt_webhook_delivery open a transaction scope
\* (handlers.py 110 and 135); a timeout is only logged (lines 128-129)
OpensScope(outcome) == outcome # "timeout"

\* the outcomes of the POSTs of one retry, one per URL in order; the loop
\* asks for none after the first that is not a timeout
Runs ==
    {outs \in [1..Len(webhook_urls) -> Outcomes] :
        \A j, k \in 1..Len(webhook_urls) :
            (j < k /\ outs[j] # "timeout") => outs[k] = outs[j]}
StatusCode(outcome) == IF outcome = "2xx" THEN 200 ELSE 500

\* handlers.py 64-69 with the column defaults of models.py 96-101; target
\* (the URL the row was made for) and attempts (how often
\* _attempt_webhook_delivery ran for it) are history, not columns
WebhookLog(url) ==
    [target |-> url, status_code |-> {}, retry_count |-> 0,
     max_retries |-> max_retries, next_retry_at |-> NoTime,
     delivered |-> FALSE, attempts |-> 0]

\* an attempt that marks the row delivered whatever the response's status:
\* what C13 is measured against
AttemptMarksDelivered(rows, i, outcome) ==
    IF outcome \in {"2xx", "non2xx"}
    THEN [rows |-> [rows EXCEPT ![i].status_code = {StatusCode(outcome)},
                                ![i].delivered = TRUE,
                                ![i].attempts = @ + 1],
          success |-> outcome = "2xx"]
    ELSE [rows |-> [rows EXCEPT ![i].attempts = @ + 1],
          success |-> FALSE]

\* handlers.py 81-146
_attempt_webhook_delivery(rows, i, outcome) ==
    IF outcome = "2xx"
    THEN [rows |-> [rows EXCEPT ![i].status_code = {StatusCode(outcome)},
                                ![i].delivered = TRUE,
                                ![i].attempts = @ + 1],
          success |-> TRUE]
    ELSE IF outcome = "non2xx"
    THEN [rows |-> [rows EXCEPT ![i].status_code = {StatusCode(outcome)},
                                ![i].attempts = @ + 1],
          success |-> FALSE]
    ELSE [rows |-> [rows EXCEPT ![i].attempts = @ + 1],
          success |-> FALSE]

\* handlers.py 148-166
_schedule_webhook_retry(rows, i, t) ==
    IF rows[i].retry_count < rows[i].max_retries
    THEN [rows EXCEPT
            ![i].retry_count = @ + 1,
            ![i].next_retry_at =
                {t + retry_delay * 2 ^ (rows[i].retry_count + 1)}]
    ELSE rows

\* handlers.py 53-79
_send_webhook_to_url(rows, url, outcome, t) ==
    LET r == _attempt_webhook_delivery(Append(rows, WebhookLog(url)),
                                       Len(rows) + 1, outcome)
    IN  IF r.success THEN r.rows
        ELSE _schedule_webhook_retry(r.rows, Len(rows) + 1, t)

\* handlers.py 173-177: the rows the sweep's query returns
pending_webhooks(rows, t) ==
    {i \in 1..Len(rows) :
        /\ rows[i].delivered = FALSE
        /\ rows[i].retry_count < rows[i].max_retries
        /\ \E due \in rows[i].next_retry_at : due <= t}

\* The sweep and the scopes opened inside it run in one thread, so
\* SessionLocal() (connection.py 44, 52-54) hands all of them the same
\* session.  When an inner scope ends, its commit expires and its close
\* (connection.py 65, 72) detaches the rows the sweep's query loaded:
\* attached says whether the sweep's rows still belong to the session.  An
\* assignment to a detached row reaches no commit, and reading an expired
\* attribute of a detached row raises, which ends the sweep at line 197.

\* handlers.py 187-192: one URL after the other until one succeeds
RECURSIVE TryUrls(_, _, _, _, _)
TryUrls(rows, i, outs, k, attached) ==
    IF k > Len(webhook_urls)
    THEN [rows |-> rows, success |-> FALSE, attached |-> attached,
          raised |-> FALSE]
    ELSE IF ~attached
    THEN \* webhook_log.payload (line 189)
         [rows |-> rows, success |-> FALSE, attached |-> FALSE,
          raised |-> TRUE]
    ELSE LET r == _attempt_webhook_delivery(rows, i, outs[k])
         IN  IF r.success
             THEN [rows |-> r.rows, success |-> TRUE, attached |-> FALSE,
                   raised |-> FALSE]
             ELSE TryUrls(r.rows, i, outs, k + 1,
                          attached /\ ~OpensScope(outs[k]))

\* handlers.py 181-195: the loop over the rows the query returned
RECURSIVE RetryFrom(_, _, _, _, _, _)
RetryFrom(rows, pending, k, outs, t, attached) ==
    IF k > Len(rows) THEN rows
    ELSE IF k \notin pending
    THEN RetryFrom(rows, pending, k + 1, outs, t, attached)
    ELSE LET r == TryUrls(IF attached
                          THEN [rows EXCEPT ![k].next_retry_at = NoTime]
                          ELSE rows,
                          k, outs[k], 1, attached)
         IN  IF r.raised THEN r.rows
             ELSE IF r.success
             THEN RetryFrom(r.rows, pending, k + 1, outs, t, r.attached)
             ELSE IF ~r.attached
             THEN \* webhook_log.webhook_id (line 195)
                  r.rows
             ELSE \* the scope of _schedule_webhook_retry ends
                  RetryFrom(_schedule_webhook_retry(r.rows, k, t),
                            pending, k + 1, outs, t, FALSE)

\* handlers.py 168-198
process_webhook_retries(rows, outs, t) ==
    RetryFrom(rows, pending_webhooks(rows, t), 1, outs, t, TRUE)

\* one task of send_webhook (handlers.py 44-48)
SendWebhookToUrl ==
    \E k \in 1..Len(webhook_urls), outcome \in Outcomes :
        /\ Len(webhook_logs) < MaxWebhooks
        /\ webhook_logs' = _send_webhook_to_url(webhook_logs, webhook_urls[k],
                                                outcome, utcnow)
        /\ UNCHANGED <<utcnow, EventVars, SessionVars, MetricsVars, AuxVars>>

\* one periodic sweep
ProcessWebhookRetries ==
    \E outs \in [pending_webhooks(webhook_logs, utcnow) -> Runs] :
        /\ webhook_logs' = process_webhook_retries(webhook_logs, outs, utcnow)
        /\ UNCHANGED <<utcnow, EventVars, SessionVars, MetricsVars, AuxVars>>

\* time passes
Advance ==
    /\ utcnow < MaxClock * retry_delay
    /\ utcnow' = utcnow + retry_delay
    /\ UNCHANGED <<webhook_logs, EventVars, SessionVars, MetricsVars, AuxVars>>

DeliveryNext ==
    \/ SendWebhookToUrl
    \/ ProcessWebhookRetries
    \/ Advance

DeliverySpec == Init /\ [][DeliveryNext]_vars


\* ================================================================ claims
Terminal == {"completed", "failed", "cancelled", "no_answer", "busy"}

\* the status each status-changing tag stands for
StatusOfTag ==
    [t \in {"call.initiated", "call.connected", "call.answered",
            "call.completed", "call.failed", "call.cancelled",
            "call.no_answer", "call.busy"} |->
        CASE t = "call.initiated" -> "initiated"
          [] t = "call.connected" -> "connected"
          [] t = "call.answered" -> "answered"
          [] t = "call.completed" -> "completed"
          [] t = "call.failed" -> "failed"
          [] t = "call.cancelled" -> "cancelled"
          [] t = "call.no_answer" -> "no_answer"
          [] t = "call.busy" -> "busy"]

HasRecord(rows, id) == \E i \in 1..Len(rows) : rows[i].call_id = id
RecordsOf(rows, id) == {i \in 1..Len(rows) : rows[i].call_id = id}

\* this step is one process_webhook call whose payload normalised and during
\* which nothing raised
Applied ==
    /\ received' = received + 1
    /\ last'.stage = "handled"
    /\ last'.fault = "none"

\* the log entries that belong to call id: those that name it, and those
\* linked to its record
EntriesOf(rows, log, id) ==
    {k \in 1..Len(log) :
        \/ log[k].call_id = id
        \/ \E i \in RecordsOf(rows, id) : log[k].call_log_id = {i}}

\* C1: once a record's status is completed, failed, cancelled, no_answer or
\* busy, no later event changes its status.
C1_TerminalStatusKept ==
    [][\A i \in 1..Len(call_logs) :
          call_logs[i].status \in Terminal
            => call_logs'[i].status = call_logs[i].status]_vars

\* C2: every application of a successfully normalised event appends exactly
\* one log entry for its call_id, whether or not the record was changed.
C2_OneLogEntryPerEvent ==
    [][Applied =>
          Cardinality(EntriesOf(call_logs', call_events',
                                last'.event.call_id))
            = Cardinality(EntriesOf(call_logs, call_events,
                                    last'.event.call_id)) + 1]_vars

\* the events the payloads normalise to
Events ==
    {_parse_webhook_event(p, 0) : p \in GoodPayloads}

\* C3: in every reachable state, applying any event twice in a row leaves the
\* records as applying it once does, and the log two entries longer.
C3_Idempotent ==
    \A e \in Events :
        \A once \in {_process_event(Current, e, "none").tables} :
            \A twice \in {_process_event(once, e, "none").tables} :
                /\ twice.call_logs = once.call_logs
                /\ Len(twice.call_events) = Len(call_events) + 2

\* C4: an event other than call.initiated that arrives for a call_id with no
\* record creates a placeholder record for it.
C4_PlaceholderCreated ==
    [][(/\ Applied
        /\ last'.event.event_type # "call.initiated"
        /\ ~HasRecord(call_logs, last'.event.call_id))
          => HasRecord(call_logs', last'.event.call_id)]_vars

\* C5: there is never more than one record per call_id; no step removes a
\* record or changes its call_id; and a call.initiated event for a call_id
\* that has a record is applied to that record instead of adding a second.
C5_OneRecordPerCallId ==
    [][/\ UniqueCallId(call_logs')
       /\ Len(call_logs') >= Len(call_logs)
       /\ \A i \in 1..Len(call_logs) :
             call_logs'[i].call_id = call_logs[i].call_id
       /\ (/\ Applied
           /\ last'.event.event_type = "call.initiated"
           /\ HasRecord(call_logs, last'.event.call_id))
             => /\ Len(call_logs') = Len(call_logs)
                /\ last'.ret
                /\ \A i \in RecordsOf(call_logs, last'.event.call_id) :
                      /\ call_logs'[i].status = "initiated"
                      /\ call_logs'[i].call_started_at
                            = {last'.event.timestamp}]_vars

\* a call.initiated was applied to a record that existed, after the record
\* had been moved on by another event
C5_Witness ==
    /\ last.stage = "handled"
    /\ last.fault = "none"
    /\ last.event.event_type = "call.initiated"
    /\ last.ret
    /\ Len(call_logs) = 1
    /\ Len(call_events) >= 3
    /\ call_events[Len(call_events)].call_log_id = {1}

\* C6: a completed event at T1 on a record started at T0 sets status
\* completed, call_ended_at T1 and duration T1 - T0; without a start the
\* duration stays null; and no record ever holds a negative duration.
C6_Duration ==
    [][/\ (Applied /\ last'.event.event_type = "call.completed")
            => \A i \in RecordsOf(call_logs, last'.event.call_id) :
                 /\ call_logs'[i].status = "completed"
                 /\ call_logs'[i].call_ended_at = {last'.event.timestamp}
                 /\ call_logs[i].call_started_at = NoTime
                       => call_logs'[i].duration = NoTime
                 /\ \A t0 \in call_logs[i].call_started_at :
                       call_logs'[i].duration
                         = {last'.event.timestamp - t0}
       /\ \A i \in 1..Len(call_logs') :
             \A d \in call_logs'[i].duration : d >= 0]_vars

\* C7: call.initiated for a call_id without a record creates one with status
\* initiated, call_started_at the event's timestamp and the payload's name,
\* phone, email and query; a following call.completed makes it completed
\* with the duration between the two timestamps.
C7_InitiatedCreates ==
    [][/\ (/\ Applied
           /\ last'.event.event_type = "call.initiated"
           /\ ~HasRecord(call_logs, last'.event.call_id))
             => /\ Len(call_logs') = Len(call_logs) + 1
                /\ \E row \in {call_logs'[Len(call_logs')]} :
                    \E data \in {last'.event.data} :
                      /\ row.call_id = last'.event.call_id
                      /\ row.status = "initiated"
                      /\ row.call_started_at = {last'.event.timestamp}
                      /\ row.customer_name = data.customer_name
                      /\ row.customer_email = data.customer_email
                      /\ row.customer_query
                            = Or(data.customer_query, data.query)
                      /\ row.customer_phone
                            \in {PhoneStr(Or(data.customer_phone, data.to)),
                                 PhoneStr(FormatE164(
                                    Or(data.customer_phone, data.to)))}
       /\ (/\ Applied
           /\ last'.event.event_type = "call.completed"
           /\ last.stage = "handled"
           /\ last.event.event_type = "call.initiated"
           /\ last.event.call_id = last'.event.call_id
           /\ last.ret)
             => \A i \in RecordsOf(call_logs, last'.event.call_id) :
                  /\ call_logs'[i].status = "completed"
                  /\ call_logs'[i].duration
                        = {last'.event.timestamp
                             - last.event.timestamp}]_vars

\* the payloads of either shape that carry a call identifier under no alias
NoCallIdPayloads ==
    {p \in BadPayloads :
        /\ p.event_type # Absent \/ p.type # Absent
        /\ ~Truthy(Get(p.call_id))
        /\ ~Truthy(Get(p.callId))}

\* C8: in every reachable state, a payload of either shape without a call
\* identifier is rejected for the missing call id, no handler runs, and the
\* records, the log and the customers stay as they are.
C8_MissingCallIdRejected ==
    /\ \E p \in NoCallIdPayloads : p.event_type # Absent
    /\ \E p \in NoCallIdPayloads : p.type # Absent
    /\ \A p \in NoCallIdPayloads :
         \A r \in {process_webhook(p, "none")} :
            /\ r.stage = "rejected"
            /\ r.error = "missing_call_id"
            /\ r.handler = None
            /\ ~r.ret
            /\ r.tables = Current
    /\ (last.stage = "rejected" /\ last.error = "missing_call_id")
          => last.handler = None /\ ~last.ret

\* a payload without a call id was rejected while records existed
C8_Witness ==
    /\ last.stage = "rejected"
    /\ last.error = "missing_call_id"
    /\ Len(call_logs) > 0
    /\ Len(call_events) > 0

\* the handlers that change a record
RecordHandlers ==
    {event_handlers[t] : t \in DOMAIN event_handlers}
      \ {"_handle_participant_joined", "_handle_participant_left"}

\* C9: one process_webhook call never changes a record without appending
\* its log entry, never appends the entry of a record handler without the
\* record holding the event's effect, and changes nothing at all when an
\* exception is raised inside the handler's transaction.
C9_Atomic ==
    [][received' = received + 1
         => /\ last'.fault = "in_tx"
                 => UNCHANGED <<call_logs, call_events, customers>>
            /\ (call_logs' # call_logs \/ customers' # customers)
                 => Len(call_events') = Len(call_events) + 1
            /\ (/\ call_events' # call_events
                /\ last'.handler \in RecordHandlers)
                 => /\ Len(call_events') = Len(call_events) + 1
                    /\ \E i \in RecordsOf(call_logs',
                                          last'.event.call_id) :
                          /\ last'.event.event_type
                                \in DOMAIN StatusOfTag
                                => call_logs'[i].status
                                     = StatusOfTag[last'.event.event_type]
                          /\ call_events'[Len(call_events')].call_log_id
                                \in {{}, {i}}]_vars

\* an exception struck inside the transaction of a handler that had already
\* changed an existing record
C9_Witness ==
    /\ last.stage = "handled"
    /\ last.fault = "in_tx"
    /\ last.handler = "_handle_call_completed"
    /\ HasRecord(call_logs, last.event.call_id)
    /\ \E i \in RecordsOf(call_logs, last.event.call_id) :
          call_logs[i].status # "completed"

\* C10: a row that was not delivered and has used up its retries has no
\* next_retry_at left and is selected by no sweep, whenever it runs.
C10_RetryCap ==
    \A i \in 1..Len(webhook_logs) :
        (/\ ~webhook_logs[i].delivered
         /\ webhook_logs[i].retry_count >= webhook_logs[i].max_retries)
          => /\ webhook_logs[i].next_retry_at = NoTime
             /\ \A t \in {utcnow} \cup {due + retry_delay :
                                        due \in webhook_logs[i].next_retry_at} :
                   i \notin pending_webhooks(webhook_logs, t)

\* C11: no row is ever attempted more than max_retries times, the first
\* attempt, all sweeps and all URLs counted.
C11_AttemptsCapped ==
    \A i \in 1..Len(webhook_logs) :
        webhook_logs[i].attempts <= webhook_logs[i].max_retries

\* C12: whenever a retry is scheduled for a row that had retry_count
\* retries scheduled before, next_retry_at becomes
\* now + retry_delay * 2^retry_count (retry_delay for the first retry).
C12_Backoff ==
    [][\A i \in 1..Len(webhook_logs') :
          \E before \in {IF i <= Len(webhook_logs)
                          THEN webhook_logs[i].retry_count ELSE 0} :
              webhook_logs'[i].retry_count > before
                => webhook_logs'[i].next_retry_at
                     = {utcnow + retry_delay * 2 ^ before}]_vars

RetryState(row) ==
    <<row.delivered, row.retry_count, row.next_retry_at>>

\* C14: in every reachable state, a first attempt or a sweep whose POSTs
\* time out or raise a network error leaves every row with the same
\* delivered, retry_count and next_retry_at as one whose POSTs get a
\* non-2xx response.
C14_TimeoutLikeNon2xx ==
    \A outcome \in {"timeout", "error"} :
        /\ \A k \in 1..Len(webhook_urls) :
             \E a \in {_send_webhook_to_url(webhook_logs, webhook_urls[k],
                                             outcome, utcnow)} :
             \E b \in {_send_webhook_to_url(webhook_logs, webhook_urls[k],
                                             "non2xx", utcnow)} :
                RetryState(a[Len(a)]) = RetryState(b[Len(b)])
        /\ \E pending \in {pending_webhooks(webhook_logs, utcnow)} :
           \E a \in {process_webhook_retries(webhook_logs,
                        [i \in pending |->
                            [k \in 1..Len(webhook_urls) |-> outcome]],
                        utcnow)} :
           \E b \in {process_webhook_retries(webhook_logs,
                        [i \in pending |->
                            [k \in 1..Len(webhook_urls) |-> "non2xx"]],
                        utcnow)} :
              \A i \in 1..Len(webhook_logs) :
                 RetryState(a[i]) = RetryState(b[i])

\* the changes of unit u that are pending in the session of its thread
OwnPending(u) == {w \in session[Thread(u)].pending : w[1] = u}

\* C15: when a transaction scope ends normally or by a return, its pending
\* changes are committed and nothing is raised; when it ends by an
\* exception, nothing is committed and the exception is raised again; and
\* on every path the session is left closed, with nothing pending.
C15_ScopeExit ==
    [][\A u \in Units :
          (scope[u] # 0 /\ scope'[u] = 0)
            => /\ lastExit'.unit = u
               /\ lastExit'.path \in {"normal", "return"}
                    => /\ OwnPending(u) \subseteq store'
                       /\ ~lastExit'.reraised
               /\ lastExit'.path \notin {"normal", "return"}
                    => /\ store' = store
                       /\ lastExit'.reraised
               /\ session'[Thread(u)] = NewSession]_vars

\* a scope that held a change was left by a return, and the change is
\* committed
C15_Witness ==
    /\ lastExit.path = "return"
    /\ <<lastExit.unit, entered>> \in store
    /\ scope[lastExit.unit] = 0
    /\ ~session[Thread(lastExit.unit)].active

\* C16: the end of one unit's transaction scope never commits or discards
\* the pending changes of another unit whose scope is open, and never
\* detaches that unit's rows from its session.
C16_SessionsNotShared ==
    [][\A u, o \in Units :
          (u # o /\ scope[u] # 0 /\ scope'[u] = 0 /\ scope[o] # 0)
            => /\ OwnPending(o) \subseteq session'[Thread(o)].pending
               /\ o \in session[Thread(o)].attached
                    => o \in session'[Thread(o)].attached]_vars

\* C17: each of call_started_at, call_connected_at and call_ended_at of a
\* call record is set at most once: a field that holds a time keeps that
\* time through every later event.
TimestampFields(row) ==
    <<row.call_started_at, row.call_connected_at, row.call_ended_at>>

C17_TimestampsSetOnce ==
    [][\A i \in 1..Len(call_logs) :
          /\ i <= Len(call_logs')
          /\ \A f \in 1..3 :
                TimestampFields(call_logs[i])[f] # NoTime
                  => TimestampFields(call_logs'[i])[f]
                       = TimestampFields(call_logs[i])[f]]_vars

\* C18: in every reachable state the timestamps a call record holds are in
\* order: call_started_at <= call_connected_at <= call_ended_at.
C18_TimestampsOrdered ==
    \A i \in 1..Len(call_logs) :
       /\ \A a \in call_logs[i].call_started_at :
             /\ \A b \in call_logs[i].call_connected_at : a <= b
             /\ \A c \in call_logs[i].call_ended_at : a <= c
       /\ \A b \in call_logs[i].call_connected_at :
             \A c \in call_logs[i].call_ended_at : b <= c

\* ---------------------------------------------------------- normalisation
\* every kind of value a timestamp key can hold
Timestamps ==
    {TsAbsent, TsEmpty, TsFalsy}
    \cup {TsNumber(t) : t \in Times}
    \cup {TsString(f, t) : f \in KnownFormats \cup {"isoformat"}, t \in Times}

\* Shape B payloads without createdAt, with a call identifier and any
\* timestamp
TimestampPayloads ==
    {[ShapeB("call.completed", "c1", TsAbsent, EmptyData)
        EXCEPT !.timestamp = ts] : ts \in Timestamps}

\* Shape A payloads: with and without a call identifier, every kind of
\* timestamp, with and without the data key
ShapeAPayloads ==
    {[ShapeA("call.initiated", id, ts, EmptyData) EXCEPT !.data = box] :
        id \in {"c1", "", Absent},
        ts \in Timestamps,
        box \in {<<>>, <<EmptyData>>, <<FullData>>}}

\* the Shape B payload that differs from a Shape A payload only in shape:
\* type for event_type, callId for call_id, createdAt for timestamp and
\* payload for data
AsShapeB(p) ==
    [event_type |-> Absent, type |-> p.event_type,
     call_id |-> Absent, callId |-> p.call_id,
     timestamp |-> TsAbsent, createdAt |-> p.timestamp,
     data |-> <<>>, payload |-> p.data]

\* the events the voice agent reports (main.py 174, 204, 229, 238, 406, 425)
AgentEvents ==
    {"call_started", "call_completed", "user_interaction_detected",
     "priority_interaction", "call_failed"}

\* main.py 54-60: the payload send_webhook posts to WEBHOOK_URL.  Its keys
\* are event, timestamp, data, room_id and session_id; the keys the receiver
\* looks for and the sender does not write are absent.
send_webhook(event_type, data, t) ==
    [event |-> event_type, timestamp |-> TsString("isoformat", t),
     data |-> <<data>>, room_id |-> "", session_id |-> "",
     event_type |-> Absent, type |-> Absent, call_id |-> Absent,
     callId |-> Absent, createdAt |-> TsAbsent, payload |-> <<>>]

AgentPayloads ==
    {send_webhook(tag, data, t) :
        tag \in AgentEvents, data \in {EmptyData, FullData}, t \in Times}

ParseInputs ==
    Payloads \cup TimestampPayloads \cup ShapeAPayloads
    \cup {AsShapeB(p) : p \in ShapeAPayloads}
    \cup AgentPayloads

\* one call of _parse_webhook_event (events.py 76), at the time the clock
\* shows
ParseWebhookEvent ==
    \E p \in ParseInputs :
       \E e \in {_parse_webhook_event(p, clock)} :
          /\ last' = [stage |-> "parsed", payload |-> p, now |-> clock,
                      event |-> e,
                      error |-> IF e = NoEvent THEN ParseError(p) ELSE None,
                      handler |-> None, fault |-> "none", ret |-> FALSE]
          /\ UNCHANGED <<call_logs, call_events, customers, inbound, clock,
                         received, webhook_logs, utcnow, SessionVars,
                         MetricsVars, AuxVars>>

ParseNext == ParseWebhookEvent \/ Tick

ParseSpec == Init /\ [][ParseNext]_vars

\* the value of the timestamp key the payload's shape reads
TimestampOf(p) ==
    IF p.event_type # Absent THEN p.timestamp
    ELSE IF p.createdAt \in {TsAbsent, TsEmpty, TsFalsy} THEN p.timestamp
    ELSE p.createdAt

\* the call identifier the payload's shape reads
CallIdOf(p) ==
    IF p.event_type # Absent THEN Get(p.call_id)
    ELSE IF p.type # Absent THEN Or(Get(p.callId), Get(p.call_id))
    ELSE None

HasKnownFormat(ts) == ts.kind = "str" /\ ts.fmt \in KnownFormats

\* C19: a payload with a call identifier is never rejected for its
\* timestamp: normalised at any ingestion time it gives an event, whose
\* timestamp is the parsed time when the timestamp is in a known format and
\* the ingestion time when it is missing, not a string or unparsable.
C19_TimestampNeverRejects ==
    (last.stage = "parsed" /\ Truthy(CallIdOf(last.payload)))
       => /\ last.event # NoEvent
          /\ last.event.event_type = TagOf(last.payload)
          /\ HasKnownFormat(TimestampOf(last.payload))
                => last.event.timestamp = TimestampOf(last.payload).t
          /\ ~HasKnownFormat(TimestampOf(last.payload))
                => last.event.timestamp = last.now

\* a payload whose timestamp string is in no known format was normalised
\* and carries the ingestion time, which is not the time the string states
C19_Witness ==
    /\ last.stage = "parsed"
    /\ Truthy(CallIdOf(last.payload))
    /\ TimestampOf(last.payload).kind = "str"
    /\ ~HasKnownFormat(TimestampOf(last.payload))
    /\ last.event.timestamp = last.now
    /\ TimestampOf(last.payload).t # last.now

\* the four fields of the events two payloads normalise to are equal
SameEvent(a, b) ==
    /\ a.event_type = b.event_type
    /\ a.call_id = b.call_id
    /\ a.timestamp = b.timestamp
    /\ a.data = b.data

\* C20 as stated: two payloads that differ only in shape normalise to equal
\* event_type, call_id, timestamp and payload.
C20_ShapesAgree ==
    (last.stage = "parsed" /\ last.payload \in ShapeAPayloads)
       => SameEvent(last.event,
                    _parse_webhook_event(AsShapeB(last.payload), last.now))

\* C20, amended: two payloads that differ only in shape normalise to equal
\* event_type, call_id and timestamp, and to equal data when they carry the
\* data / payload key or no call identifier; with a call identifier and
\* without that key, Shape A gives the empty mapping and Shape B the whole
\* payload.
C20_ShapesAgreeOnCarriedData ==
    (last.stage = "parsed" /\ last.payload \in ShapeAPayloads)
       => \A b \in {_parse_webhook_event(AsShapeB(last.payload), last.now)} :
             /\ last.event.event_type = b.event_type
             /\ last.event.call_id = b.call_id
             /\ last.event.timestamp = b.timestamp
             /\ (last.payload.data # <<>> \/ last.event = NoEvent)
                   => last.event.data = b.data
             /\ (last.payload.data = <<>> /\ last.event # NoEvent)
                   => /\ last.event.data = EmptyData
                      /\ b.data = Whole(AsShapeB(last.payload))
                      /\ b.data # last.event.data

\* a Shape A payload carrying its data key and a call identifier was
\* normalised, to the event its Shape B counterpart normalises to
C20_Witness ==
    /\ last.stage = "parsed"
    /\ last.payload \in ShapeAPayloads
    /\ last.payload.data = <<FullData>>
    /\ last.event # NoEvent
    /\ last.event.data = FullData
    /\ last.now > 0
    /\ SameEvent(last.event,
                 _parse_webhook_event(AsShapeB(last.payload), last.now))

\* ------------------------------------------------- field updates per event
\* the handlers that only write the audit log
LogOnlyHandlers ==
    {"_handle_participant_joined", "_handle_participant_left",
     "_handle_unknown_event"}

Enrichment == {"recording.ready", "transcript.ready", "error.occurred"}

Enriched(row, tag) ==
    CASE tag = "recording.ready" -> row.recording_url
      [] tag = "transcript.ready" -> row.transcript_url
      [] tag = "error.occurred" -> row.error_details

EnrichedWith(data, tag) ==
    CASE tag = "recording.ready" -> data.recording_url
      [] tag = "transcript.ready" -> data.transcript_url
      [] tag = "error.occurred" -> data.error

C23_ConnectedAt ==
    [][(Applied /\ last'.event.event_type
                     \in {"call.connected", "call.answered"})
          => \A i \in RecordsOf(call_logs, last'.event.call_id) :
                call_logs[i].status \notin Terminal
                  => /\ call_logs'[i].status
                          = StatusOfTag[last'.event.event_type]
                     /\ call_logs'[i].call_connected_at
                          = IF call_logs[i].call_connected_at = NoTime
                            THEN {last'.event.timestamp}
                            ELSE call_logs[i].call_connected_at]_vars

\* the failure tags, and the error text an event's payload carries
FailureTags == {"call.failed", "call.cancelled", "call.no_answer",
                "call.busy"}

\* C24: a call.failed, call.cancelled, call.no_answer or call.busy event
\* applied to an existing record in a non-terminal status sets the status to
\* that value and, for each of the four, sets error_details from the payload
\* when the payload carries one and leaves it as it was otherwise.
C24_FailureDetails ==
    [][(Applied /\ last'.event.event_type \in FailureTags)
          => \A i \in RecordsOf(call_logs, last'.event.call_id) :
                call_logs[i].status \notin Terminal
                  => /\ call_logs'[i].status
                          = StatusOfTag[last'.event.event_type]
                     /\ call_logs'[i].error_details
                          = IF Truthy(last'.event.data.error)
                            THEN last'.event.data.error
                            ELSE call_logs[i].error_details]_vars

\* how far along initiated -> {connected, answered, failed, cancelled,
\* no_answer, busy} -> completed a status is
Rank(status) ==
    CASE status = "initiated" -> 0
      [] status = "completed" -> 2
      [] OTHER -> 1

\* C25: the status of a record only moves forward along initiated ->
\* {connected, answered, failed, cancelled, no_answer, busy} -> completed;
\* in particular a record whose status has left initiated never gets it
\* back.
C25_StatusMovesForward ==
    [][\A i \in 1..Len(call_logs) :
          /\ Rank(call_logs'[i].status) >= Rank(call_logs[i].status)
          /\ call_logs[i].status # "initiated"
                => call_logs'[i].status # "initiated"]_vars

\* ---------------------------------------------------------- metrics cache
\* C26: a query whose cache entry is younger than the TTL is answered with
\* the cached value and nothing is recomputed; a query whose entry is
\* missing or at least TTL old is not answered from the cache but goes on
\* to recompute; so no answer from the cache is ever TTL old or older.
C26_CacheFreshness ==
    [][answer'.n = answer.n + 1
          => \E e \in {EntryOf(answer'.query)} :
                /\ (e # NoEntry /\ utcnow - e[1].timestamp < cache_ttl)
                      => /\ answer'.cached
                         /\ answer'.data = e[1].data
                         /\ in_flight' = in_flight
                         /\ <<metrics_cache', cache'>>
                               = <<metrics_cache, cache>>
                /\ (e = NoEntry \/ utcnow - e[1].timestamp >= cache_ttl)
                      => /\ ~answer'.cached
                         /\ in_flight'[answer'.caller].pc = "missed"
                /\ answer'.cached => answer'.age < cache_ttl]_vars

\* the caller is between its freshness check and its cache write
InCheckThenWrite(c) == in_flight[c].pc \in {"missed", "computed"}

\* C27: two concurrent queries for the same cache key are never both
\* between the freshness check and the cache write.
C27_CacheUnderLock ==
    \A c, d \in Callers :
       (c # d /\ InCheckThenWrite(c) /\ InCheckThenWrite(d))
          => in_flight[c].query # in_flight[d].query

\* -------------------------------------------------------------- customers
\* what get_or_create_customer can be called with
Names == {None, "", "A"}
Phones == {PhoneStr("+14155552671"), PhoneStr("12")}
Emails == {None, "a@x", "b@x"}

\* models.py 15: customers.name is nullable=False
NameNotNull(rows) == \A i \in 1..Len(rows) : rows[i].name # None

CustomersOf(rows, phone) == {i \in 1..Len(rows) : rows[i].phone = phone}

\* one call of get_or_create_customer in a transaction of its own (the
\* /submit route, app.py 126-129): the flush or commit raises when a
\* constraint of the customers table is violated, and the transaction is
\* rolled back
GetOrCreateCustomer ==
    \E name \in Names, phone \in Phones, email \in Emails :
       \E rows \in {get_or_create_customer(customers, name, phone, email)} :
          \E raised \in {~(NameNotNull(rows) /\ UniquePhone(rows))} :
             /\ customers' = get_db_session(customers, rows, raised)
             /\ last' = [stage |-> "upsert", name |-> name, phone |-> phone,
                         email |-> email, ret |-> ~raised,
                         event |-> NoEvent, error |-> None,
                         handler |-> None, fault |-> "none"]
             /\ UNCHANGED <<call_logs, call_events, inbound, clock,
                            received, webhook_logs, utcnow, SessionVars,
                            MetricsVars, AuxVars>>

\* the first webhook of a behaviour is a call.initiated event, whose
\* handler upserts the customer (events.py 208-210)
FirstCallInitiated == received = 0 /\ HandleCallInitiated

CustomerNext == GetOrCreateCustomer \/ FirstCallInitiated

CustomerSpec == Init /\ [][CustomerNext]_vars

\* C28: an upsert that succeeds for a phone that has a customer puts a
\* non-empty incoming name or email in place of an empty one and never puts
\* an empty or missing one in place of a non-empty one.
C28_UpsertNonDestructive ==
    [][(last'.stage = "upsert" /\ last'.ret)
          => \A i \in CustomersOf(customers, last'.phone) :
                /\ (~Truthy(customers[i].name) /\ Truthy(last'.name))
                      => customers'[i].name = last'.name
                /\ (~Truthy(customers[i].email) /\ Truthy(last'.email))
                      => customers'[i].email = last'.email
                /\ (Truthy(customers[i].name) /\ ~Truthy(last'.name))
                      => customers'[i].name = customers[i].name
                /\ (Truthy(customers[i].email) /\ ~Truthy(last'.email))
                      => customers'[i].email = customers[i].email]_vars

SnapshotFields ==
    {"customer_name", "customer_phone", "customer_email", "customer_query"}

HoldsValue(row, f) ==
    IF f = "customer_phone" THEN PhoneTruthy(row[f]) ELSE Truthy(row[f])

\* C30: no step changes a customer field of an existing call record that
\* holds a value, whatever event is applied to the record.
C30_SnapshotKept ==
    [][\A i \in 1..Len(call_logs) :
          \A f \in SnapshotFields :
             HoldsValue(call_logs[i], f)
                => call_logs'[i][f] = call_logs[i][f]]_vars

\* a second call.initiated with other customer data was applied to a record
\* that keeps the name it was created with
C30_Witness ==
    /\ last.stage = "handled"
    /\ last.fault = "none"
    /\ last.ret
    /\ last.event.event_type = "call.initiated"
    /\ last.event.data.customer_name = "B"
    /\ \E i \in RecordsOf(call_logs, last.event.call_id) :
          /\ call_logs[i].customer_name = "A"
          /\ call_logs[i].customer_email = "a@x"
          /\ call_logs[i].call_started_at = {last.event.timestamp}

\* ----------------------------------------------------------- stored phone
\* the raw phone value a call.initiated payload carries (events.py 169)
RawPhone(data) == Or(data.customer_phone, data.to)

\* C31: a call.initiated event that creates a record stores the validator's
\* E.164 string when the number is valid and the payload's own value when it
\* is not; what is stored is a phone string either way.
C31_StoredPhone ==
    [][(/\ Applied
        /\ last'.event.event_type = "call.initiated"
        /\ ~HasRecord(call_logs, last'.event.call_id))
          => \E row \in {call_logs'[Len(call_logs')]} :
               \E raw \in {RawPhone(last'.event.data)} :
                 /\ row.customer_phone.type = "str"
                 /\ row.customer_phone
                      = IF IsValidNumber(raw)
                        THEN PhoneStr(FormatE164(raw))
                        ELSE PhoneStr(raw)]_vars

\* ------------------------------------------------------ nothing is fatal
\* the ways a process_webhook call ends with a returned value
Returned == {"rejected", "handled", "log_failed"}

\* a call.initiated payload for each call id
InitiatedPayloads ==
    {ShapeA("call.initiated", id, At(0), EmptyData) : id \in {"c1", "c2"}}

RetryOne(rows, k, outs, t, attached) ==
    LET r == TryUrls(IF attached
                     THEN [rows EXCEPT ![k].next_retry_at = NoTime]
                     ELSE rows,
                     k, outs, 1, attached)
    IN  IF r.raised
        THEN [rows |-> r.rows, attached |-> FALSE, raised |-> TRUE]
        ELSE IF r.success
        THEN [rows |-> r.rows, attached |-> r.attached, raised |-> FALSE]
        ELSE IF ~r.attached
        THEN [rows |-> r.rows, attached |-> FALSE, raised |-> TRUE]
        ELSE [rows |-> _schedule_webhook_retry(r.rows, k, t),
              attached |-> FALSE, raised |-> FALSE]

\* the first row of a set, in the order of the query's result
First(S) == CHOOSE k \in S : \A j \in S : k <= j

\* handlers.py 173-177: an invocation runs its query
SweepQuery(s) ==
    /\ sweeps[s].pc = "idle"
    /\ pending_webhooks(webhook_logs, utcnow) # {}
    /\ sweeps' = [sweeps EXCEPT
                    ![s].pc = "loop",
                    ![s].pending = pending_webhooks(webhook_logs, utcnow),
                    ![s].due = {<<k, webhook_logs[k].next_retry_at>> :
                                  k \in pending_webhooks(webhook_logs,
                                                         utcnow)},
                    ![s].attached = TRUE]
    /\ UNCHANGED <<webhook_logs, utcnow, EventVars, SessionVars, MetricsVars,
                   NotSweeps>>

\* handlers.py 181-195: an invocation comes to the next row of its result;
\* it ends after the last row, or at line 197 when something raised
SweepRetry(s) ==
    /\ sweeps[s].pc = "loop"
    /\ \E outs \in Runs :
         \E k \in {First(sweeps[s].pending)} :
           \E r \in {RetryOne(webhook_logs, k, outs, utcnow,
                              sweeps[s].attached)} :
             /\ webhook_logs' = r.rows
             /\ sweeps' = [sweeps EXCEPT
                   ![s].pc = IF r.raised \/ sweeps[s].pending = {k}
                             THEN "done" ELSE "loop",
                   ![s].pending = IF r.raised THEN {} ELSE @ \ {k},
                   ![s].attached = r.attached,
                   ![s].tried =
                       IF webhook_logs'[k].attempts > webhook_logs[k].attempts
                       THEN @ \cup {d \in sweeps[s].due : d[1] = k}
                       ELSE @]
    /\ UNCHANGED <<utcnow, EventVars, SessionVars, MetricsVars, NotSweeps>>

OverlapNext ==
    \/ SendWebhookToUrl
    \/ Advance
    \/ \E s \in Sweepers : SweepQuery(s)
    \/ \E s \in Sweepers : SweepRetry(s)

OverlapSpec == Init /\ [][OverlapNext]_vars

\* C33: when invocations of process_webhook_retries overlap, no delivery
\* record is attempted by two of them for the same scheduled retry.
C33_OneAttemptPerDueTime ==
    \A s1, s2 \in Sweepers :
        s1 # s2 => sweeps[s1].tried \cap sweeps[s2].tried = {}

\* ------------------------------------------------------ delivery targets
\* handlers.py 187-192: the URL whose 2xx ends the loop over the URLs (the
\* first in order to answer 2xx), None when no URL answers 2xx
AnsweringUrl(outs) ==
    IF \E k \in 1..Len(webhook_urls) : outs[k] = "2xx"
    THEN webhook_urls[CHOOSE k \in 1..Len(webhook_urls) :
                        /\ outs[k] = "2xx"
                        /\ \A j \in 1..(k - 1) : outs[j] # "2xx"]
    ELSE None

\* C34: a sweep marks a delivery record delivered only when the URL that
\* answered 2xx is the URL the record was created for.
C34_DeliveredByOwnTarget ==
    \A outs \in [pending_webhooks(webhook_logs, utcnow) -> Runs] :
        \A i \in pending_webhooks(webhook_logs, utcnow) :
            process_webhook_retries(webhook_logs, outs, utcnow)[i].delivered
                => AnsweringUrl(outs[i]) = webhook_logs[i].target

\* ------------------------------------------------- concurrent transactions
\* the connection the session of a request works on
ConnectionOf(w) == IF race.engine = "static" THEN "shared" ELSE w

\* what a statement on connection c sees: the committed tables, or those of
\* the transaction open on c
View(c) ==
    IF race.working[c] = NoWork THEN Current
    ELSE CHOOSE tables \in race.working[c] : TRUE

\* the events the concurrent requests carry
RaceEvents ==
    {[event_type |-> "call.initiated", call_id |-> id, timestamp |-> 0,
      data |-> data] : id \in {"c1", "c2"}, data \in {EmptyData, FullData}}

\* events.py 183-212 given what the query of line 181 returned: the rows the
\* session holds when db.commit() flushes them
InitiatedWork(db, event, found) ==
    LET data == event.data
        phone0 == Or(data.customer_phone, data.to)
        customer_phone == IF Truthy(phone0)
                          THEN validate_phone_number(phone0)
                          ELSE PhoneStr(phone0)
        i == FindCall(db.call_logs, event.call_id)
        rows == IF ~found
                THEN Append(db.call_logs,
                            NewCallLog(event, data.customer_name,
                                       customer_phone, data.customer_email,
                                       Or(data.customer_query, data.query)))
                ELSE [db.call_logs EXCEPT
                        ![i].status = "initiated",
                        ![i].call_started_at = {event.timestamp}]
        call_event == CallEvent(IF found THEN {i} ELSE {}, None, event)
        custs == IF PhoneTruthy(customer_phone)
                 THEN _upsert_customer(db.customers, data.customer_name,
                                       customer_phone, data.customer_email)
                 ELSE db.customers
    IN  Tables(rows, Append(db.call_events, call_event), custs)

\* connection.py 18-42: the engine is created
RaceInitialize ==
    /\ race.engine = "unset"
    /\ \E e \in Engines : race' = [race EXCEPT !.engine = e]
    /\ UNCHANGED <<EventVars, webhook_logs, utcnow, SessionVars, MetricsVars,
                   NotRace>>

\* events.py 166-181: a request enters the handler and runs its query
RaceRead(w) ==
    /\ race.engine # "unset"
    /\ race.txn[w].pc = "idle"
    /\ \E event \in RaceEvents :
         race' = [race EXCEPT
                    !.txn[w] = [pc |-> "read", event |-> event,
                                found |-> HasRecord(
                                    View(ConnectionOf(w)).call_logs,
                                    event.call_id),
                                ret |-> FALSE]]
    /\ UNCHANGED <<EventVars, webhook_logs, utcnow, SessionVars, MetricsVars,
                   NotRace>>

\* events.py 212, first half: db.commit() flushes the INSERTs and UPDATEs.
\* With a pool of connections the statements wait while another connection
\* has a transaction with writes open.  A row that violates a unique
\* constraint, or an UPDATE of a row that is gone, raises: get_db_session
\* rolls the connection back (connection.py 67-69) and the handler returns
\* False (events.py 216-218).
RaceFlush(w) ==
    /\ race.txn[w].pc = "read"
    /\ \E c \in {ConnectionOf(w)} :
         /\ \A d \in Connections \ {c} : race.working[d] = NoWork
         /\ \E staged \in {InitiatedWork(View(c), race.txn[w].event,
                                         race.txn[w].found)} :
              IF \/ ~UniqueCallId(staged.call_logs)
                 \/ ~UniquePhone(staged.customers)
                 \/ (race.txn[w].found
                       /\ ~HasRecord(View(c).call_logs,
                                     race.txn[w].event.call_id))
              THEN race' = [race EXCEPT
                              !.working[c] = NoWork,
                              !.txn[w].pc = "done",
                              !.txn[w].ret = FALSE]
              ELSE race' = [race EXCEPT
                              !.working[c] = {staged},
                              !.txn[w].pc = "flushed"]
    /\ UNCHANGED <<EventVars, webhook_logs, utcnow, SessionVars, MetricsVars,
                   NotRace>>

\* events.py 212-214, second half: the COMMIT on the connection makes what
\* is open on it durable, whoever wrote it; the handler returns True
RaceCommit(w) ==
    /\ race.txn[w].pc = "flushed"
    /\ \E c \in {ConnectionOf(w)} :
         /\ call_logs' = View(c).call_logs
         /\ call_events' = View(c).call_events
         /\ customers' = View(c).customers
         /\ race' = [race EXCEPT
                       !.working[c] = NoWork,
                       !.txn[w].pc = "done",
                       !.txn[w].ret = TRUE]
    /\ UNCHANGED <<inbound, clock, received, last, webhook_logs, utcnow,
                   SessionVars, MetricsVars, NotRace>>

RaceNext ==
    \/ RaceInitialize
    \/ \E w \in Workers : RaceRead(w)
    \/ \E w \in Workers : RaceFlush(w)
    \/ \E w \in Workers : RaceCommit(w)

RaceSpec == Init /\ [][RaceNext]_vars

\* both requests have finished, and both had handled the same call id and
\* read 'no record' for it
BothReadNoRecord ==
    /\ \A w \in Workers : race.txn[w].pc = "done" /\ ~race.txn[w].found
    /\ \A v, w \in Workers :
          race.txn[v].event.call_id = race.txn[w].event.call_id

\* C35: after two concurrent call.initiated events for one unseen call id,
\* exactly one record of that call id exists, exactly one of the two handlers
\* reported success, and the other left nothing behind.
C35_OneWinner ==
    BothReadNoRecord
      => /\ Len(call_logs) = 1
         /\ Len(call_events) = 1
         /\ Cardinality({w \in Workers : race.txn[w].ret}) = 1

\* ------------------------------------------------------------- dispatch
\* the functions defined in the body of class WebhookEventProcessor
\* (events.py 49-226): the attributes an instance has
ClassAttributes ==
    {"__init__", "process_webhook", "_parse_webhook_event", "_process_event",
     "_handle_call_initiated", "_handle_call_connected",
     "_handle_call_answered"}

\* the functions defined at module level after the class (events.py 228-406)
ModuleFunctions ==
    {"_handle_call_completed", "_handle_call_failed",
     "_handle_call_cancelled", "_handle_call_no_answer", "_handle_call_busy",
     "_handle_recording_ready", "_handle_transcript_ready",
     "_handle_participant_joined", "_handle_participant_left",
     "_handle_error_occurred", "_handle_unknown_event",
     "_update_call_status", "_log_participant_event"}

\* events.py 52-67: __init__ reads self.<handler> for every entry of the
\* dict, and raises AttributeError at the first name the instance lacks
Constructs ==
    \A t \in DOMAIN event_handlers : event_handlers[t] \in ClassAttributes

\* C36: a WebhookEventProcessor can be constructed; each of the 13 tags is
\* dispatched to its own handler and any other tag to the unknown-event
\* handler; and every handler that ran is one the processor has.
C36_DispatchTotal ==
    /\ Constructs
    /\ Cardinality(DOMAIN event_handlers) = 13
    /\ \A t \in EventType :
          HandlerOf(t) = event_handlers[t]
    /\ \A t \in Tags \ EventType : HandlerOf(t) = "_handle_unknown_event"
    /\ last.stage = "handled"
          => /\ last.handler = HandlerOf(last.event.event_type)
             /\ last.handler \in ClassAttributes

\* ------------------------------------------------------------ the route
\* a route that goes on to the queue whatever process_webhook returned: what
\* C37 is measured against
ProceedAlways(success) == [pc |-> "processed", status |-> 0]

\* app.py 211-214: the route answers 400 when process_webhook returned False
AfterProcessing(success) ==
    IF ~success THEN [pc |-> "idle", status |-> 400]
    ELSE [pc |-> "processed", status |-> 0]

\* app.py 230-246: what the UI is told of a payload
format_webhook_data(payload) ==
    [status |-> Or(Get(payload.event_type), Get(payload.type))]

\* what the route is handed: a JSON body and where its processing is
\* interrupted; "format" is format_webhook_data raising (app.py 217)
RouteInputs ==
    {<<p, f>> : p \in FaultyPayloads, f \in Faults \cup {"format"}}
    \cup {<<p, "none">> : p \in BadPayloads}

\* app.py 201-214: a request arrives, process_webhook runs
RouteProcess ==
    /\ route.pc = "idle"
    /\ received < MaxEvents
    /\ \E x \in RouteInputs :
         \E r \in {process_webhook(x[1], x[2])} :
           /\ call_logs' = r.tables.call_logs
           /\ call_events' = r.tables.call_events
           /\ customers' = r.tables.customers
           /\ inbound' = r.inbound
           /\ received' = received + 1
           /\ last' = [stage |-> r.stage, error |-> r.error,
                       event |-> r.event, handler |-> r.handler,
                       fault |-> x[2], ret |-> r.ret]
           /\ route' = [pc |-> AfterProcessing(r.ret).pc, input |-> x,
                        status |-> AfterProcessing(r.ret).status]
    /\ UNCHANGED <<event_queue, clock, webhook_logs, utcnow, SessionVars,
                   MetricsVars, NotRoute>>

\* app.py 205-208: a request without a JSON body (or with an empty one) is
\* answered 400 before anything is processed
RouteRejectsEmptyBody ==
    /\ route.pc = "idle"
    /\ received < MaxEvents
    /\ received' = received + 1
    /\ route' = [pc |-> "idle", input |-> <<>>, status |-> 400]
    /\ UNCHANGED <<call_logs, call_events, customers, inbound, clock, last,
                   event_queue, webhook_logs, utcnow, SessionVars,
                   MetricsVars, NotRoute>>

\* app.py 216-228: the payload is formatted, put on the queue and answered
\* with 200; an exception is answered with 500
RouteEnqueue ==
    /\ route.pc = "processed"
    /\ IF route.input[2] = "format"
       THEN /\ route' = [route EXCEPT !.pc = "idle", !.status = 500]
            /\ UNCHANGED event_queue
       ELSE /\ event_queue' = Append(event_queue,
                                     format_webhook_data(route.input[1]))
            /\ route' = [route EXCEPT !.pc = "idle", !.status = 200]
    /\ UNCHANGED <<EventVars, webhook_logs, utcnow, SessionVars, MetricsVars,
                   NotRoute>>

\* app.py 270-276: the event stream takes the next event off the queue
StreamEvent ==
    /\ event_queue # <<>>
    /\ event_queue' = Tail(event_queue)
    /\ UNCHANGED <<route, EventVars, webhook_logs, utcnow, SessionVars,
                   MetricsVars, NotRoute>>

RouteNext ==
    RouteProcess \/ RouteRejectsEmptyBody \/ RouteEnqueue \/ StreamEvent

RouteSpec == Init /\ [][RouteNext]_vars

\* this step puts an event on the queue
Pushed == Len(event_queue') = Len(event_queue) + 1

\* C37: an event is put on the queue only by a request whose payload
\* process_webhook has returned True for, and it is that payload's event; a
\* request whose processing failed is answered 400 and puts nothing on the
\* queue; and the put changes nothing in the store.
C37_EnqueueAfterSuccess ==
    [][/\ Pushed
            => /\ route.pc = "processed"
               /\ last.stage = "handled"
               /\ last.ret
               /\ event_queue'[Len(event_queue')].status
                     = last.event.event_type
               /\ route'.status = 200
               /\ UNCHANGED <<call_logs, call_events, customers>>
       /\ (received' = received + 1 /\ (~last'.ret \/ route'.input = <<>>))
            => /\ route'.status = 400
               /\ route'.pc = "idle"
               /\ UNCHANGED event_queue]_vars

\* an event was enqueued for an applied payload, and a later payload whose
\* processing failed was answered 400 and left the queue as it was
C37_Witness ==
    /\ route.pc = "idle"
    /\ route.status = 400
    /\ ~last.ret
    /\ last.fault = "after_commit"
    /\ Len(event_queue) = 1
    /\ event_queue[1].status = "call.initiated"
    /\ Len(call_logs) = 1

\* ------------------------------------------------ the agent's payloads
\* C38: a payload the voice agent's send_webhook emits normalises to an
\* event, whenever it is received.
C38_AgentPayloadAccepted ==
    (last.stage = "parsed" /\ last.payload \in AgentPayloads)
       => last.event # NoEvent

\* ------------------------------------------------------- the rate limiter
\* the limits and windows the routes ask for (auth.py 196: the decorator's
\* arguments, per route)
Limits == {1, 2}
LimiterWindows == {1, 3}

\* the entries of a list of times that are later than cutoff, in order
RECURSIVE After(_, _)
After(times, cutoff) ==
    IF times = <<>> THEN <<>>
    ELSE IF Head(times) > cutoff
    THEN <<Head(times)>> \o After(Tail(times), cutoff)
    ELSE After(Tail(times), cutoff)

Max(a, b) == IF a >= b THEN a ELSE b

\* auth.py 154-194
is_allowed(requests, identifier, limit, window, t) ==
    LET cutoff == t - window
        kept == After(requests[identifier], cutoff)
        current_requests == Len(kept)
        remaining == Max(0, limit - current_requests)
    IN  IF current_requests >= limit
        THEN [requests |-> [requests EXCEPT ![identifier] = kept],
              allowed |-> FALSE, remaining |-> remaining]
        ELSE [requests |-> [requests EXCEPT ![identifier] = Append(kept, t)],
              allowed |-> TRUE, remaining |-> remaining - 1]

\* one request passes through the decorator (auth.py 208-218)
IsAllowed ==
    /\ limiter.calls < MaxCalls
    /\ \E id \in Identifiers, limit \in Limits, window \in LimiterWindows :
         \E r \in {is_allowed(limiter.requests, id, limit, window,
                              limiter.now)} :
           limiter' = [limiter EXCEPT
              !.requests = r.requests,
              !.admitted[id] = IF r.allowed THEN Append(@, limiter.now)
                               ELSE @,
              !.calls = @ + 1,
              !.call = [identifier |-> id, limit |-> limit,
                        window |-> window, at |-> limiter.now,
                        allowed |-> r.allowed, remaining |-> r.remaining]]
    /\ UNCHANGED <<EventVars, webhook_logs, utcnow, SessionVars, MetricsVars,
                   NotLimiter>>

\* a second passes
LimiterTick ==
    /\ limiter.now < MaxSeconds
    /\ limiter' = [limiter EXCEPT !.now = @ + 1]
    /\ UNCHANGED <<EventVars, webhook_logs, utcnow, SessionVars, MetricsVars,
                   NotLimiter>>

LimiterNext == IsAllowed \/ LimiterTick

LimiterSpec == Init /\ [][LimiterNext]_vars

\* how many admissions of the last call's identifier are younger than the
\* last call's window, at the time of the call
AdmittedInWindow(l) ==
    Len(After(l.admitted[l.call.identifier], l.call.at - l.call.window))

\* C39: a call of is_allowed admits the request only if, with it, at most
\* limit admitted requests of the identifier are younger than the window; a
\* denied request is not recorded; and the remaining count reported is limit
\* minus the admitted requests in the window, and never negative.
C39_AtMostLimit ==
    [][limiter'.calls = limiter.calls + 1
         => /\ limiter'.call.allowed
                 => AdmittedInWindow(limiter') <= limiter'.call.limit
            /\ ~limiter'.call.allowed
                 => /\ limiter'.admitted = limiter.admitted
                    /\ Len(limiter'.requests[limiter'.call.identifier])
                          <= Len(limiter.requests[limiter'.call.identifier])
            /\ limiter'.call.remaining >= 0
            /\ limiter'.call.remaining
                 = Max(0, limiter'.call.limit - AdmittedInWindow(limiter'))
      ]_vars

\* ----------------------------------------------------------- migrations
\* MigrationManager.migrations (migrations.py 15-22), each under the name
\* run_migrations gives it (line 36)
migrations ==
    <<"migration_001", "migration_002", "migration_003", "migration_004",
      "migration_005", "migration_006">>

\* where an invocation can be interrupted: nowhere, in
\* _ensure_migrations_table, in the i-th migration, or in
\* _mark_migration_completed after the i-th migration
MigrationFaults ==
    {<<0, "none">>, <<0, "ensure">>}
    \cup {<<i, at>> : i \in 1..Len(migrations), at \in {"migration", "mark"}}

\* a reading of the table that finds nothing recorded: what C40 is measured
\* against
NoneCompleted(rows) == {}

\* migrations.py 66-69
_get_completed_migrations(rows) == rows

\* migrations.py 71-77
_mark_migration_completed(rows, migration_name) ==
    rows \cup {migration_name}

\* migrations.py 35-47: the loop from the i-th migration on; rows is the
\* table, ran the migrations started so far, applied those that ended
RECURSIVE RunFrom(_, _, _, _, _, _)
RunFrom(i, completed, rows, ran, applied, fault) ==
    IF i > Len(migrations)
    THEN [rows |-> rows, ran |-> ran, applied |-> applied, ret |-> TRUE]
    ELSE IF migrations[i] \in completed
    THEN RunFrom(i + 1, completed, rows, ran, applied, fault)
    ELSE IF fault = <<i, "migration">>
    THEN [rows |-> rows, ran |-> Append(ran, migrations[i]),
          applied |-> applied, ret |-> FALSE]
    ELSE IF fault = <<i, "mark">>
    THEN [rows |-> rows, ran |-> Append(ran, migrations[i]),
          applied |-> Append(applied, migrations[i]), ret |-> FALSE]
    ELSE RunFrom(i + 1, completed,
                 _mark_migration_completed(rows, migrations[i]),
                 Append(ran, migrations[i]),
                 Append(applied, migrations[i]), fault)

\* migrations.py 24-53
run_migrations(rows, applied, fault) ==
    IF fault = <<0, "ensure">>
    THEN [rows |-> rows, ran |-> <<>>, applied |-> applied, ret |-> FALSE]
    ELSE RunFrom(1, _get_completed_migrations(rows), rows, <<>>, applied,
                 fault)

\* one invocation (initialize_database, migrations.py 315-317)
RunMigrations ==
    /\ migrate.runs < MaxRuns
    /\ \E fault \in MigrationFaults :
         \E r \in {run_migrations(migrate.schema_migrations,
                                  migrate.applied, fault)} :
            migrate' = [schema_migrations |-> r.rows,
                        applied |-> r.applied,
                        runs |-> migrate.runs + 1,
                        last |-> [completed |-> migrate.schema_migrations,
                                  ran |-> r.ran, ret |-> r.ret]]
    /\ UNCHANGED <<EventVars, webhook_logs, utcnow, SessionVars, MetricsVars,
                   NotMigrate>>

MigrationNext == RunMigrations

MigrationSpec == Init /\ [][MigrationNext]_vars

\* the names of a sequence
Range(s) == {s[k] : k \in 1..Len(s)}

\* the migrations that are not recorded in rows, in list order
RECURSIVE PendingFrom(_, _)
PendingFrom(i, rows) ==
    IF i > Len(migrations) THEN <<>>
    ELSE IF migrations[i] \in rows THEN PendingFrom(i + 1, rows)
    ELSE <<migrations[i]>> \o PendingFrom(i + 1, rows)

\* how often a migration has run to its end
TimesApplied(applied, name) ==
    Cardinality({k \in 1..Len(applied) : applied[k] = name})

\* C40: an invocation of run_migrations runs pending migrations only, in
\* list order and without a gap; what it records has run to its end, and it
\* runs nothing that was recorded; when it returns True it has run and
\* recorded every pending migration; when it returns False whatever it ran
\* before the failing one is recorded and nothing after the failing one was
\* run.
C40_MigrationsInOrder ==
    [][migrate'.runs = migrate.runs + 1
         => \E was \in {migrate.schema_migrations} :
            \E run \in {migrate'.last} :
            \E pending \in {PendingFrom(1, migrate.schema_migrations)} :
              /\ Len(run.ran) <= Len(pending)
              /\ run.ran = SubSeq(pending, 1, Len(run.ran))
              /\ Range(run.ran) \cap was = {}
              /\ was \subseteq migrate'.schema_migrations
              /\ migrate'.schema_migrations \ was \subseteq Range(run.ran)
              /\ \A name \in migrate'.schema_migrations :
                    TimesApplied(migrate'.applied, name) >= 1
              /\ \A name \in was :
                    TimesApplied(migrate'.applied, name)
                      = TimesApplied(migrate.applied, name)
              /\ run.ret
                   => /\ run.ran = pending
                      /\ migrate'.schema_migrations = Range(migrations)
              /\ ~run.ret
                   => /\ Len(run.ran) = 0
                         => migrate'.schema_migrations = was
                      /\ Len(run.ran) > 0
                         => migrate'.schema_migrations
                              = was \cup Range(SubSeq(run.ran, 1,
                                                      Len(run.ran) - 1))
      ]_vars

\* an invocation that failed in the third migration was followed by one
\* that ran the migrations from the third on, and no other, and returned
\* True
C40_Witness ==
    /\ migrate.runs = 2
    /\ migrate.last.completed = {"migration_001", "migration_002"}
    /\ migrate.last.ran = <<"migration_003", "migration_004",
                            "migration_005", "migration_006">>
    /\ migrate.last.ret
    /\ migrate.schema_migrations = Range(migrations)


====
